---- MODULE Spec2Model ----
(***************************************************************************)
(* A model of pkgbuilder: the recursive Builder (builder.py), its Manifest *)
(* and the parts of pkgbuild.py the Builder drives.                        *)
(*                                                                         *)
(* Strings the code inspects (package names, dependency tokens, versions)  *)
(* are tuples of one-character strings, so that parsing and comparison are *)
(* computed as the code computes them.  Artifact paths are opaque strings. *)
(***************************************************************************)
EXTENDS Integers, Sequences, FiniteSets, TLC

(***************************************************************************)
(* Bounds of the model.                                                    *)
(***************************************************************************)
\* The deepest nesting of Builders explored where builds may be repeated.
MaxDepth == 2
\* The most stdout lines one failed makepkg run reports.
MaxLines == 2

(***************************************************************************)
(* Strings                                                                 *)
(***************************************************************************)
Min(S) == CHOOSE x \in S : \A y \in S : x <= y

Range(s) == {s[i] : i \in 1..Len(s)}

\* Code points of the characters that occur in names and versions.
Ord(c) ==
  CASE c = "." -> 46
    [] c = "0" -> 48
    [] c = "1" -> 49
    [] c = "2" -> 50
    [] c = "3" -> 51
    [] c = "9" -> 57
    [] c = "<" -> 60
    [] c = "=" -> 61
    [] c = ">" -> 62
    [] c = "D" -> 68
    [] c = "M" -> 77
    [] c = "P" -> 80
    [] c = "U" -> 85
    [] OTHER -> 120

\* Python's str ordering: lexicographic by code point, a proper prefix first.
RECURSIVE StrLess(_, _)
StrLess(a, b) ==
  IF b = <<>> THEN FALSE
  ELSE IF a = <<>> THEN TRUE
  ELSE IF Ord(Head(a)) # Ord(Head(b)) THEN Ord(Head(a)) < Ord(Head(b))
  ELSE StrLess(Tail(a), Tail(b))

(***************************************************************************)
(* pkgbuild.py: Restriction and parse_restriction                          *)
(***************************************************************************)
NoRestriction == [compare |-> <<>>, version |-> <<>>]

Restriction(c, v) == [compare |-> c, version |-> v]

\* A variant that tries the one-character comparators first.
Comparators_short_first ==
  << <<">">>, <<"<">>, <<"=">>, <<">", "=">>, <<"<", "=">> >>

\* The comparators in the order parse_restriction tries them.
Comparators == << <<">", "=">>, <<"<", "=">>, <<">">>, <<"<">>, <<"=">> >>

\* parse('{name}' + c + '{version}', pkg): both fields are non-empty and
\* non-greedy, the pattern is anchored at both ends, so the name is the
\* shortest non-empty prefix followed by c and at least one more character.
ParseMatches(c, pkg) ==
  {i \in 2..Len(pkg) :
     /\ i + Len(c) - 1 < Len(pkg)
     /\ SubSeq(pkg, i, i + Len(c) - 1) = c}

RECURSIVE ParseFrom(_, _)
ParseFrom(k, pkg) ==
  IF k > Len(Comparators) THEN [name |-> pkg, r |-> NoRestriction]
  ELSE LET c == Comparators[k]
           I == ParseMatches(c, pkg)
       IN IF I # {}
          THEN LET i == Min(I)
               IN [name |-> SubSeq(pkg, 1, i - 1),
                   r |-> Restriction(c, SubSeq(pkg, i + Len(c), Len(pkg)))]
          ELSE ParseFrom(k + 1, pkg)

parse_restriction(pkg) == ParseFrom(1, pkg)

(***************************************************************************)
(* The local tree of PKGBUILD directories (the program's input) and what   *)
(* makepkg --printsrcinfo / --packagelist say about each directory.        *)
(***************************************************************************)
P == <<"P">>
D == <<"D">>
M == <<"M">>
U == <<"U">>

\* Directories of the local tree, in os.scandir order.
LocalTree == <<P, D, M>>

Buildable == Range(LocalTree)

srcinfo(dir) ==
  CASE dir = P -> [pkgbase |-> P, pkgver |-> <<"1">>, provides |-> <<>>,
                   depends |-> <<D>>, makedepends |-> <<M>>]
    [] dir = D -> [pkgbase |-> D, pkgver |-> <<"1">>, provides |-> <<>>,
                   depends |-> << <<"M", ">", "1">> >>, makedepends |-> <<>>]
    [] dir = M -> [pkgbase |-> M, pkgver |-> <<"1">>, provides |-> <<>>,
                   depends |-> <<>>, makedepends |-> <<>>]

packagelist(dir) ==
  CASE dir = P -> {"P.pkg"}
    [] dir = D -> {"D.pkg"}
    [] dir = M -> {"M.pkg"}

Paths == UNION {packagelist(d) : d \in Buildable}

(***************************************************************************)
(* pkgbuild.py: Pkgbuild._get_depends, depends, makedepends,               *)
(* dependency_type, dependency_restrictions.  A dependency map is a        *)
(* function from names to lists of Restrictions.                           *)
(***************************************************************************)
EmptyMap == <<>>

RECURSIVE GetDependsFrom(_, _, _)
GetDependsFrom(k, srcinfo_deps, deps) ==
  IF k > Len(srcinfo_deps) THEN deps
  ELSE LET pkg == srcinfo_deps[k]
           pr == parse_restriction(pkg)
           next ==
             IF pr.r # NoRestriction
             THEN IF pr.name \in DOMAIN deps
                  THEN IF pr.r \notin Range(deps[pr.name])
                       THEN [deps EXCEPT ![pr.name] = Append(@, pr.r)]
                       ELSE deps
                  ELSE (pr.name :> <<pr.r>>) @@ deps
             ELSE (pkg :> <<>>) @@ deps
       IN GetDependsFrom(k + 1, srcinfo_deps, next)

get_depends(srcinfo_deps) == GetDependsFrom(1, srcinfo_deps, EmptyMap)

depends(dir) == get_depends(srcinfo(dir).depends)

makedepends(dir) == get_depends(srcinfo(dir).makedepends)

\* "None" stands for Python's None, which the method returns by falling off
\* its end.
dependency_type(dir, name) ==
  IF name \in DOMAIN depends(dir) THEN "depends"
  ELSE IF name \in DOMAIN makedepends(dir) THEN "makedepends"
  ELSE "None"

dependency_restrictions(dir, name) ==
  IF name \in DOMAIN depends(dir) THEN depends(dir)[name]
  ELSE IF name \in DOMAIN makedepends(dir) THEN makedepends(dir)[name]
  ELSE <<>>

(***************************************************************************)
(* pkgbuild.py: LocalDir.update and LocalDir.providers.  The index         *)
(* (LocalDir.packages) is a list of entries in insertion order, each a     *)
(* Package (name, version) with the list of directories providing it.      *)
(***************************************************************************)
\* str.split(sep) for a one-character separator.
RECURSIVE SplitFrom(_, _, _, _)
SplitFrom(k, s, sep, acc) ==
  IF k > Len(s) THEN acc
  ELSE IF s[k] = sep
       THEN SplitFrom(k + 1, s, sep, Append(acc, <<>>))
       ELSE SplitFrom(k + 1, s, sep,
                      [acc EXCEPT ![Len(acc)] = Append(@, s[k])])

Split(s, sep) == SplitFrom(1, s, sep, << <<>> >>)

Package(name, version) == [name |-> name, version |-> version]

add_package(packages, pkg, pkgbuild) ==
  IF \E j \in 1..Len(packages) : packages[j].pkg = pkg
  THEN [j \in 1..Len(packages) |->
          IF packages[j].pkg = pkg
          THEN [packages[j] EXCEPT !.pkgbuilds = Append(@, pkgbuild)]
          ELSE packages[j]]
  ELSE Append(packages, [pkg |-> pkg, pkgbuilds |-> <<pkgbuild>>])

RECURSIVE AddProvides(_, _, _, _)
AddProvides(k, info, dir, packages) ==
  IF k > Len(info.provides) THEN packages
  ELSE LET s == Split(info.provides[k], "=")
           pkg == IF Len(s) < 2 THEN Package(s[1], info.pkgver)
                                ELSE Package(s[1], s[2])
       IN AddProvides(k + 1, info, dir, add_package(packages, pkg, dir))

\* One pass of the scan over the entries of the tree.  An entry is
\* [name, pkgbuild, info]: a directory, whether it holds a PKGBUILD, and
\* its srcinfo.
RECURSIVE UpdateFrom(_, _, _)
UpdateFrom(k, entries, packages) ==
  IF k > Len(entries) THEN packages
  ELSE LET e == entries[k]
           next ==
             IF ~e.pkgbuild THEN packages
             ELSE IF e.info.provides # <<>>
                  THEN AddProvides(1, e.info, e.name, packages)
                  ELSE add_package(packages,
                                   Package(e.info.pkgbase, e.info.pkgver),
                                   e.name)
       IN UpdateFrom(k + 1, entries, next)

TreeEntries ==
  [i \in 1..Len(LocalTree) |->
     [name |-> LocalTree[i], pkgbuild |-> TRUE, info |-> srcinfo(LocalTree[i])]]

\* LocalDir.packages after the update() of Builder.__init__.
LocalDirPackages == UpdateFrom(1, TreeEntries, <<>>)

\* A variant that is content with one restriction that holds.
restrict_version_any(v, restrictions) ==
  \/ restrictions = <<>>
  \/ \E i \in 1..Len(restrictions) :
       LET r == restrictions[i]
       IN ~ \/ (r.compare = <<">">> /\ ~ StrLess(r.version, v))
            \/ (r.compare = <<"<">> /\ ~ StrLess(v, r.version))
            \/ (r.compare = <<"=">> /\ ~ (v = r.version))
            \/ (r.compare = <<">", "=">> /\ StrLess(v, r.version))
            \/ (r.compare = <<"<", "=">> /\ StrLess(r.version, v))

restrict_version(v, restrictions) ==
  \A i \in 1..Len(restrictions) :
    LET r == restrictions[i]
    IN ~ \/ (r.compare = <<">">> /\ ~ StrLess(r.version, v))
         \/ (r.compare = <<"<">> /\ ~ StrLess(v, r.version))
         \/ (r.compare = <<"=">> /\ ~ (v = r.version))
         \/ (r.compare = <<">", "=">> /\ StrLess(v, r.version))
         \/ (r.compare = <<"<", "=">> /\ StrLess(r.version, v))

\* LocalDir.update(force) on a LocalDir whose path is set: the LocalDir
\* after the call.  A scan adds to the index the LocalDir already holds.
update(ld, force) ==
  IF ~ (ld.check_update \/ force) THEN ld
  ELSE [ld EXCEPT !.packages = UpdateFrom(1, ld.path, ld.packages),
                  !.check_update = FALSE,
                  !.scans = @ + 1]

\* A variant that takes every entry of the name, whatever its version.
providers_by_name(packages, name, restrictions) ==
  LET hits == {j \in 1..Len(packages) : packages[j].pkg.name = name}
  IN IF packages = <<>> \/ hits = {} THEN <<>>
     ELSE packages[Min(hits)].pkgbuilds

\* The list of providers, or <<>> for ProviderNotFoundError (a list the
\* index holds is never empty).
providers(packages, name, restrictions) ==
  LET hits == {j \in 1..Len(packages) :
                 /\ packages[j].pkg.name = name
                 /\ restrict_version(packages[j].pkg.version, restrictions)}
  IN IF packages = <<>> \/ hits = {} THEN <<>>
     ELSE packages[Min(hits)].pkgbuilds

\* The dictionary a ProviderNotFoundError carries (providers, lines 131-133).
providers_err(name, restrictions) ==
  [message |-> <<"Provider for ", name, " not found">>,
   source |-> "Local",
   version_restrictions |-> restrictions]

(***************************************************************************)
(* pkgbuild.py: Pkgbuild.new, for a name that is not itself a path.        *)
(* source is "None", "Local" or "Aur".                                     *)
(***************************************************************************)
AurKnown == {}

\* A variant that looks at the source flag before it looks for the PKGBUILD.
Pkgbuild_new_flag_first(name, dirs, withPkgbuild, source, aur) ==
  IF name \in withPkgbuild /\ source # "Aur"
  THEN [kind |-> "LocalPkgbuild", dir |-> name, source |-> "None"]
  ELSE IF source = "Local"
  THEN [kind |-> "SourceNotFoundError", dir |-> name, source |-> "Local"]
  ELSE IF name \in dirs /\ name \notin withPkgbuild
  THEN [kind |-> "NoPkgbuildError", dir |-> name, source |-> "None"]
  ELSE IF name \in aur
  THEN [kind |-> "AurPkgbuild", dir |-> name, source |-> "None"]
  ELSE [kind |-> "SourceNotFoundError", dir |-> name, source |-> "Aur"]

\* The outcome, the directory or name it is about, and err['source'] of a
\* SourceNotFoundError.
Pkgbuild_new(name, dirs, withPkgbuild, source, aur) ==
  IF name \in dirs /\ name \notin withPkgbuild
  THEN [kind |-> "NoPkgbuildError", dir |-> name, source |-> "None"]
  ELSE IF name \in dirs /\ source # "Aur"
  THEN [kind |-> "LocalPkgbuild", dir |-> name, source |-> "None"]
  ELSE IF source = "Local"
  THEN [kind |-> "SourceNotFoundError", dir |-> name, source |-> "Local"]
  ELSE IF name \in aur
  THEN [kind |-> "AurPkgbuild", dir |-> name, source |-> "None"]
  ELSE [kind |-> "SourceNotFoundError", dir |-> name, source |-> "Aur"]

(***************************************************************************)
(* builder.py: Manifest.  A Manifest object is a record with the fields    *)
(* pkgname, packages, depends and makedepends (Builder, a subclass, adds   *)
(* more).  The manifest file build.json of a build directory is            *)
(*   [kind |-> "absent"]   no file,                                        *)
(*   [kind |-> "garbage"]  a file json.load cannot decode,                 *)
(*   [kind |-> "json"]     a JSON object holding the keys in `keys`; the   *)
(*                         values of the three path keys are lists.        *)
(***************************************************************************)
Keys == {"name", "timestamp", "packages", "depends", "makedepends"}

Absent ==
  [kind |-> "absent", keys |-> {}, name |-> <<>>,
   packages |-> <<>>, depends |-> <<>>, makedepends |-> <<>>]

Garbage == [Absent EXCEPT !.kind = "garbage"]

\* list(s): the elements of a set in some order.
RECURSIVE list(_)
list(S) ==
  IF S = {} THEN <<>>
  ELSE LET x == CHOOSE y \in S : TRUE IN <<x>> \o list(S \ {x})

\* set(l)
set(l) == Range(l)

all_packages(m) == m.packages \cup m.depends \cup m.makedepends

build_depends(m) == m.depends \cup m.makedepends

\* A variant that also returns the build-only dependencies.
runtime_packages_all(m) == m.packages \cup m.depends \cup m.makedepends

runtime_packages(m) == m.packages \cup m.depends

\* A variant whose default set holds the build-only dependencies too.
verify_all(m, paths, disk) ==
  LET checked == IF paths # {} THEN paths
                 ELSE m.packages \cup m.depends \cup m.makedepends
  IN \A p \in checked : p \in disk

\* A variant whose default set is the packages alone.
verify_packages(m, paths, disk) ==
  LET checked == IF paths # {} THEN paths ELSE m.packages
  IN \A p \in checked : p \in disk

\* A variant that is content with one existing path.
verify_any(m, paths, disk) ==
  LET checked == IF paths # {} THEN paths ELSE runtime_packages(m)
  IN checked = {} \/ \E p \in checked : p \in disk

\* Manifest.verify(paths): `paths or self.runtime_packages`, each of which
\* must exist.
verify(m, paths, disk) ==
  LET checked == IF paths # {} THEN paths ELSE runtime_packages(m)
  IN \A p \in checked : p \in disk

\* A variant that writes the two dependency sets under each other's key.
save_swapped(m) ==
  [kind |-> "json", keys |-> Keys, name |-> m.pkgname,
   packages |-> list(m.packages), depends |-> list(m.makedepends),
   makedepends |-> list(m.depends)]

\* What Manifest.save() writes.
save(m) ==
  [kind |-> "json", keys |-> Keys, name |-> m.pkgname,
   packages |-> list(m.packages), depends |-> list(m.depends),
   makedepends |-> list(m.makedepends)]

\* Manifest.load() on file content j: the Manifest after the call, whether
\* the returned dictionary is non-empty, and whether the call raised.  The
\* four assignments run in order; the first missing key ends them.
load(m, j) ==
  IF j.kind = "absent" THEN [m |-> m, ok |-> FALSE, raised |-> FALSE]
  ELSE IF j.kind = "garbage" THEN [m |-> m, ok |-> FALSE, raised |-> TRUE]
  ELSE IF "name" \notin j.keys THEN [m |-> m, ok |-> FALSE, raised |-> FALSE]
  ELSE LET m1 == [m EXCEPT !.pkgname = j.name]
       IN IF "packages" \notin j.keys
          THEN [m |-> m1, ok |-> FALSE, raised |-> FALSE]
          ELSE LET m2 == [m1 EXCEPT !.packages = set(j.packages)]
               IN IF "depends" \notin j.keys
                  THEN [m |-> m2, ok |-> FALSE, raised |-> FALSE]
                  ELSE LET m3 == [m2 EXCEPT !.depends = set(j.depends)]
                       IN IF "makedepends" \notin j.keys
                          THEN [m |-> m3, ok |-> FALSE, raised |-> FALSE]
                          ELSE [m |-> [m3 EXCEPT !.makedepends =
                                                    set(j.makedepends)],
                                ok |-> TRUE, raised |-> FALSE]

\* A variant that keeps the packages a cut-short load() assigned.
reset_depends_only(m) ==
  [m EXCEPT !.depends = {}, !.makedepends = {}]

\* Manifest.reset()
reset(m) ==
  [m EXCEPT !.packages = {}, !.depends = {}, !.makedepends = {}]

\* Manifest.__init__
Manifest(pkgname, pkgbuilddir) ==
  reset([pkgname |-> pkgname, pkgbuilddir |-> pkgbuilddir,
         packages |-> {}, depends |-> {}, makedepends |-> {}])

(***************************************************************************)
(* State                                                                   *)
(***************************************************************************)
VARIABLES
  files,      \* the artifact paths that exist on disk
  manifests,  \* build.json of each build directory
  stack,      \* the Builders in use: stack[1] is the caller's Builder, the
              \* others the Builders of the nested _build calls, innermost last
  result,     \* how the caller's last operation ended
  prev,       \* how the build() before the current one on this Builder ended
  invoked,    \* directories makepkg ran on since the caller's operation began
  saved,      \* directories whose manifest was written since it began
  man,        \* a Manifest used on its own, without a Builder
  fresh,      \* the last load() of a newly constructed Manifest of man's
              \* directory, and the Manifest after it
  synced,     \* the manifest file is what man.save() wrote, and man has not
              \* changed since
  call,       \* the last call of a function or method that changes nothing:
              \* its name, its arguments and what it returned
  ldir,       \* a LocalDir and the tree of directories under its path
  pac,        \* Manifest.install in progress: its position and the pacman
              \* invocations made so far
  pkgaur,     \* Pkgbuild.aur: its cache, the requests it sent to the RPC
              \* interface, and the packages the registry knows
  cli,        \* one run of the command line: its arguments, its position,
              \* what it wrote to stderr and how it exited
  pair,       \* the two directory trees given to synctree
  cmd         \* CmdLogger.run in progress: the child process, its two pipes
              \* and the two readers

vars == <<files, manifests, stack, result, prev, invoked, saved,
          man, fresh, synced, call, ldir, pac, pkgaur, cli, pair, cmd>>

yvars == <<pkgaur, cli, pair, cmd>>

xvars == <<call, ldir, pac>>

bvars == <<files, stack, result, prev, invoked, saved>>

mvars == <<man, fresh, synced>>

NoResult == [kind |-> "none", value |-> {}]

Returned(v) == [kind |-> "returned", value |-> v]

Raised(e) == [kind |-> e, value |-> {}]

\* The errors the program defines.
TypedErrors == {"NoPkgbuildError", "SourceNotFoundError", "ProviderNotFoundError"}

\* stdout lines of a failed makepkg run, as line.split(": ") sees them.
Lines ==
  << <<"error", "target not found", D>>,
     <<"error", "target not found", M>>,
     <<"error", "target not found", P>>,
     <<"error", "target not found", U>>,
     <<"error", "target not found", <<"D", ">", "=", "1">> >>,
     <<"error">>,
     <<"error", "target not found">>,
     <<"warning", "skipping">> >>

\* The manifest files a run may find: none, one cut short while being
\* written, and ones of an older layout that lack keys.
OldManifest(dir, keys) ==
  [kind |-> "json", keys |-> keys, name |-> dir,
   packages |-> list(packagelist(dir)), depends |-> <<>>, makedepends |-> <<>>]

InitManifests ==
  {[dir \in Buildable |->
      IF dir = P THEN p ELSE IF dir = D THEN d ELSE Absent] :
     p \in {Absent, Garbage,
            OldManifest(P, {"name", "timestamp", "packages"}),
            OldManifest(P, {"timestamp", "packages", "depends", "makedepends"})},
     d \in {Absent}}

\* Nothing has been called.
NoCall == [fn |-> "none", args |-> <<>>, out |-> <<>>]

\* LocalDir.__init__ over a tree of directory entries.
\* scans counts the scans update() has made.
LocalDir(tree) ==
  [path |-> tree, check_update |-> TRUE, packages |-> <<>>, scans |-> 0]

\* Manifest.install has not been called.
NoInstall == [pc |-> "idle", flags |-> {}, log |-> <<>>]

\* No newly constructed Manifest has called load().
NoFresh ==
  [called |-> FALSE, m |-> Manifest(P, P), ok |-> FALSE, raised |-> FALSE]

\* No Aur object is in use.
NoAur == [known |-> {}, cache |-> {}, requests |-> <<>>]

\* The command line has not been run.
NoCli == [pc |-> "idle"]

\* synctree has not been called.
NoSync == [pc |-> "idle"]

\* CmdLogger.run has not been called.
NoCmd == [pc |-> "idle"]

Init ==
  /\ files = {}
  /\ manifests \in InitManifests
  /\ stack = <<>>
  /\ result = NoResult
  /\ prev = NoResult
  /\ invoked = {}
  /\ saved = {}
  /\ man = Manifest(P, P)
  /\ fresh = NoFresh
  /\ synced = FALSE
  /\ call = NoCall
  /\ ldir = LocalDir(<<>>)
  /\ pac = NoInstall
  /\ pkgaur = NoAur
  /\ cli = NoCli
  /\ pair = NoSync
  /\ cmd = NoCmd

(***************************************************************************)
(* builder.py: Builder                                                     *)
(***************************************************************************)
Top == stack[Len(stack)]

SetTop(f) == [stack EXCEPT ![Len(stack)] = f]

Idle == stack = <<>> \/ (Len(stack) = 1 /\ stack[1].pc = "idle")

\* Manifest.__init__ and the fields of one _build activation.  attempts, rc
\* and args record the makepkg runs of the activation: how many, the last
\* exit code (-1 before the first) and the dependency paths each was given.
\* built records the dependencies whose _build returned packages, with the
\* packages their Builders held; failed, whether the _build of some
\* dependency returned the empty set; merged, the packages of dependencies
\* added to depends or makedepends; made, the names of the dependencies
\* whose Builders ran makepkg, in order; startok, whether the runtime
\* packages the Builder held when build() was called all existed.
NewBuilderObject(name, dir) ==
  [name |-> name, pkgbuild |-> dir, pkgname |-> name,
   packages |-> {}, depends |-> {}, makedepends |-> {},
   pc |-> "idle", iter |-> 1, rebuild |-> FALSE, nlines |-> 0,
   attempts |-> 0, rc |-> -1, args |-> <<>>, retval |-> {},
   type |-> "None", built |-> {}, failed |-> FALSE, merged |-> {},
   made |-> <<>>, startok |-> FALSE]

Activate(b, rebuild) ==
  [b EXCEPT !.pc = "enter", !.iter = 1, !.rebuild = rebuild, !.nlines = 0,
            !.attempts = 0, !.rc = -1, !.args = <<>>, !.retval = {},
            !.type = "None", !.built = {}, !.failed = FALSE,
            !.merged = {}, !.made = <<>>,
            !.startok = runtime_packages(b) \subseteq files]

\* The Builder between two calls: the fields describing the last _build
\* activation are cleared.
AtRest(b) ==
  [NewBuilderObject(b.name, b.pkgbuild) EXCEPT
     !.pkgname = b.pkgname, !.packages = b.packages,
     !.depends = b.depends, !.makedepends = b.makedepends]

\* An exception nobody catches: every nested activation is abandoned and
\* the exception reaches the caller's build().
Raise(e) ==
  /\ stack' = <<[stack[1] EXCEPT !.pc = "raised"]>>
  /\ result' = Raised(e)

\* Builder.__init__ called with a path as localdir (the caller's Builder).
NewBuilder(name, source) ==
  /\ Idle
  /\ LET pb == Pkgbuild_new(name, Buildable, Buildable, source, AurKnown)
     IN IF pb.kind \in {"LocalPkgbuild", "AurPkgbuild"}
        THEN /\ stack' = <<NewBuilderObject(name, pb.dir)>>
             /\ result' = NoResult
        ELSE /\ stack' = <<>>
             /\ result' = Raised(pb.kind)
  /\ prev' = NoResult
  /\ invoked' = {}
  /\ saved' = {}
  /\ UNCHANGED <<files, manifests>>
  /\ UNCHANGED <<mvars, xvars, yvars>>

\* Builder.build(rebuild) is called.
Build(rebuild) ==
  /\ Len(stack) = 1
  /\ stack[1].pc = "idle"
  /\ stack' = <<Activate(stack[1], rebuild)>>
  /\ prev' = result
  /\ result' = NoResult
  /\ invoked' = {}
  /\ saved' = {}
  /\ UNCHANGED <<files, manifests>>
  /\ UNCHANGED <<mvars, xvars, yvars>>

\* _build, lines 235-243: the first pass either rebuilds, or answers from a
\* manifest that loads and verifies, or resets.
Enter ==
  /\ stack # <<>>
  /\ Top.pc = "enter"
  /\ IF Top.rebuild
     THEN /\ stack' = SetTop([Top EXCEPT !.pc = "make"])
          /\ UNCHANGED result
     ELSE LET l == load(Top, manifests[Top.pkgbuild])
          IN IF l.raised THEN Raise("JSONDecodeError")
             ELSE IF l.ok /\ verify(l.m, {}, files)
             THEN /\ stack' = SetTop([l.m EXCEPT !.pc = "done",
                                        !.retval = runtime_packages(l.m)])
                  /\ UNCHANGED result
             ELSE /\ stack' = SetTop([reset(l.m) EXCEPT !.pc = "make"])
                  /\ UNCHANGED result
  /\ UNCHANGED <<files, manifests, prev, invoked, saved>>
  /\ UNCHANGED <<mvars, xvars, yvars>>

\* _build, lines 245-253: makepkg exits 0, having written any of the
\* packages it was to produce.
MakepkgOk(created) ==
  /\ stack # <<>>
  /\ Top.pc = "make"
  /\ created \subseteq packagelist(Top.pkgbuild)
  /\ LET b == [Top EXCEPT !.packages = @ \cup packagelist(Top.pkgbuild),
                          !.attempts = @ + 1, !.rc = 0,
                          !.args = Append(@, build_depends(Top))]
     IN /\ files' = files \cup created
        /\ IF verify(b, {}, files')
           THEN /\ manifests' = [manifests EXCEPT ![b.pkgbuild] = save(b)]
                /\ saved' = saved \cup {b.pkgbuild}
                /\ stack' = SetTop([b EXCEPT !.pc = "done",
                                     !.retval = runtime_packages(b)])
           ELSE /\ stack' = SetTop([b EXCEPT !.pc = "done", !.retval = {}])
                /\ UNCHANGED <<manifests, saved>>
  /\ invoked' = invoked \cup {Top.pkgbuild}
  /\ UNCHANGED <<result, prev>>
  /\ UNCHANGED <<mvars, xvars, yvars>>

\* _build, lines 245-248, 254, 273: makepkg fails.  The first pass goes on to
\* read its stdout, a later pass returns the empty set.
MakepkgFail ==
  /\ stack # <<>>
  /\ Top.pc = "make"
  /\ LET b == [Top EXCEPT !.attempts = @ + 1, !.rc = 1,
                          !.args = Append(@, build_depends(Top))]
     IN stack' = SetTop(IF b.iter = 1
                        THEN [b EXCEPT !.pc = "discover", !.nlines = 0]
                        ELSE [b EXCEPT !.pc = "done", !.retval = {}])
  /\ invoked' = invoked \cup {Top.pkgbuild}
  /\ UNCHANGED <<files, manifests, result, prev, saved>>
  /\ UNCHANGED <<mvars, xvars, yvars>>

\* Builder.__init__ called with the parent's LocalDir: the first provider.
ChildBuilder(parent, dep) ==
  LET rs == dependency_restrictions(parent.pkgbuild, dep)
      ps == providers(LocalDirPackages, dep, rs)
  IN IF ps = <<>> THEN [kind |-> "ProviderNotFoundError", b |-> parent]
     ELSE [kind |-> "Builder", b |-> NewBuilderObject(dep, ps[1])]

\* The interpreter's limit on nested calls, counted in Builders.  It is the
\* number of buildable directories, so that it is reached only when some
\* directory is being built by two Builders of the same call stack.
RecursionLimit == Cardinality(Buildable)

\* _build, lines 255-265: the next line of stdout.  A line naming a missing
\* target starts the build of that dependency.
DiscoverLine(line, depth) ==
  /\ stack # <<>>
  /\ Top.pc = "discover"
  /\ Top.nlines < MaxLines
  /\ IF line[1] # "error"
     THEN /\ stack' = SetTop([Top EXCEPT !.nlines = @ + 1])
          /\ UNCHANGED result
     ELSE IF Len(line) < 2 THEN Raise("IndexError")
     ELSE IF line[2] # "target not found"
     THEN /\ stack' = SetTop([Top EXCEPT !.nlines = @ + 1])
          /\ UNCHANGED result
     ELSE IF Len(line) < 3 THEN Raise("IndexError")
     ELSE LET dep == parse_restriction(line[3]).name
              type == dependency_type(Top.pkgbuild, dep)
              c == ChildBuilder(Top, dep)
          IN IF c.kind # "Builder" THEN Raise(c.kind)
             ELSE IF Len(stack) >= RecursionLimit
             THEN Raise("RecursionError")
             ELSE /\ Len(stack) < depth
                  /\ stack' = Append(SetTop([Top EXCEPT !.pc = "child",
                                                        !.type = type]),
                                     Activate(c.b, Top.rebuild))
                  /\ UNCHANGED result
  /\ UNCHANGED <<files, manifests, prev, invoked, saved>>
  /\ UNCHANGED <<mvars, xvars, yvars>>

\* A variant that treats every dependency as build-only.
Merge_makedepends(parent, b) ==
  [parent EXCEPT
     !.makedepends = IF parent.type # "None" THEN @ \cup b.packages ELSE @,
     !.built = IF b.retval # {}
               THEN @ \cup {[dep |-> b.name, packages |-> b.packages]}
               ELSE @,
     !.failed = @ \/ b.retval = {},
     !.merged = IF parent.type # "None" THEN @ \cup b.packages ELSE @,
     !.made = IF b.attempts > 0 THEN Append(@, b.name) ELSE @,
     !.nlines = @ + 1,
     !.pc = "discover"]

\* _build, lines 265-269: the dependency's _build has returned; its packages
\* join the set its type names.
Merge(parent, b) ==
  [parent EXCEPT
     !.depends = IF parent.type = "depends" THEN @ \cup b.packages ELSE @,
     !.makedepends = IF parent.type = "makedepends" THEN @ \cup b.packages
                     ELSE @,
     !.built = IF b.retval # {}
               THEN @ \cup {[dep |-> b.name, packages |-> b.packages]}
               ELSE @,
     !.failed = @ \/ b.retval = {},
     !.merged = IF parent.type # "None" THEN @ \cup b.packages ELSE @,
     !.made = IF b.attempts > 0 THEN Append(@, b.name) ELSE @,
     !.nlines = @ + 1,
     !.pc = "discover"]

ChildReturn ==
  /\ Len(stack) >= 2
  /\ Top.pc = "done"
  /\ stack' = [SubSeq(stack, 1, Len(stack) - 1)
                 EXCEPT ![Len(stack) - 1] = Merge(stack[Len(stack) - 1], Top)]
  /\ UNCHANGED <<files, manifests, result, prev, invoked, saved>>
  /\ UNCHANGED <<mvars, xvars, yvars>>

\* A variant that starts the next pass without counting it.
Retry_same_pass(b) ==
  IF build_depends(b) # {}
  THEN [b EXCEPT !.pc = "make"]
  ELSE [b EXCEPT !.pc = "done", !.retval = {}]

\* _build, lines 270-273: stdout is exhausted.  One more pass when there is
\* a dependency to give to makepkg, else the empty set.
Retry(b) ==
  IF build_depends(b) # {}
  THEN [b EXCEPT !.pc = "make", !.iter = b.iter + 1]
  ELSE [b EXCEPT !.pc = "done", !.retval = {}]

DiscoverEnd ==
  /\ stack # <<>>
  /\ Top.pc = "discover"
  /\ stack' = SetTop(Retry(Top))
  /\ UNCHANGED <<files, manifests, result, prev, invoked, saved>>
  /\ UNCHANGED <<mvars, xvars, yvars>>

\* Builder.build returns to the caller.
BuildReturn ==
  /\ Len(stack) = 1
  /\ Top.pc = "done"
  /\ stack' = <<AtRest(Top)>>
  /\ result' = Returned(Top.retval)
  /\ prev' = NoResult
  /\ invoked' = {}
  /\ saved' = {}
  /\ UNCHANGED <<files, manifests>>
  /\ UNCHANGED <<mvars, xvars, yvars>>

\* Builder.build ends with the exception.
BuildRaise ==
  /\ Len(stack) = 1
  /\ Top.pc = "raised"
  /\ stack' = <<AtRest(Top)>>
  /\ prev' = NoResult
  /\ invoked' = {}
  /\ saved' = {}
  /\ UNCHANGED <<files, manifests, result>>
  /\ UNCHANGED <<mvars, xvars, yvars>>

\* Something outside the program removes an artifact between two calls.
DeleteFile(p) ==
  /\ Idle
  /\ p \in files
  /\ files' = files \ {p}
  /\ UNCHANGED <<manifests, stack, result, prev, invoked, saved>>
  /\ UNCHANGED <<mvars, xvars, yvars>>

Next ==
  \/ \E name \in {P, U}, source \in {"None", "Local"} : NewBuilder(name, source)
  \/ \E rebuild \in BOOLEAN : Build(rebuild)
  \/ Enter
  \/ \E created \in SUBSET Paths : MakepkgOk(created)
  \/ MakepkgFail
  \/ \E i \in 1..Len(Lines) : DiscoverLine(Lines[i], MaxDepth)
  \/ ChildReturn
  \/ DiscoverEnd
  \/ BuildReturn
  \/ BuildRaise
  \/ \E p \in Paths : DeleteFile(p)

Spec == Init /\ [][Next]_vars

(***************************************************************************)
(* One build() of P from an empty build directory, nested as deep as the   *)
(* interpreter allows.                                                     *)
(***************************************************************************)
DeepInit ==
  /\ files = {}
  /\ manifests = [dir \in Buildable |-> Absent]
  /\ stack = <<>>
  /\ result = NoResult
  /\ prev = NoResult
  /\ invoked = {}
  /\ saved = {}
  /\ man = Manifest(P, P)
  /\ fresh = NoFresh
  /\ synced = FALSE
  /\ call = NoCall
  /\ ldir = LocalDir(<<>>)
  /\ pac = NoInstall
  /\ pkgaur = NoAur
  /\ cli = NoCli
  /\ pair = NoSync
  /\ cmd = NoCmd

DeepNext ==
  \/ stack = <<>> /\ NewBuilder(P, "Local")
  \/ result = NoResult /\ \E rebuild \in BOOLEAN : Build(rebuild)
  \/ Enter
  \/ \E created \in SUBSET Paths : MakepkgOk(created)
  \/ MakepkgFail
  \/ \E i \in 1..Len(Lines) : DiscoverLine(Lines[i], RecursionLimit)
  \/ ChildReturn
  \/ DiscoverEnd
  \/ BuildReturn
  \/ BuildRaise

DeepSpec == DeepInit /\ [][DeepNext]_vars

(***************************************************************************)
(* A Manifest used on its own: every state of its three sets, over every   *)
(* manifest file a run may find.                                           *)
(***************************************************************************)
ManifestInit ==
  /\ files = {}
  /\ manifests \in InitManifests
  /\ stack = <<>>
  /\ result = NoResult
  /\ prev = NoResult
  /\ invoked = {}
  /\ saved = {}
  /\ man \in {[Manifest(P, P) EXCEPT !.packages = a, !.depends = b,
                                      !.makedepends = c] :
               a \in SUBSET Paths, b \in SUBSET Paths, c \in SUBSET Paths}
  /\ fresh = NoFresh
  /\ synced = FALSE
  /\ call = NoCall
  /\ ldir = LocalDir(<<>>)
  /\ pac = NoInstall
  /\ pkgaur = NoAur
  /\ cli = NoCli
  /\ pair = NoSync
  /\ cmd = NoCmd

\* man.save()
ManifestSave ==
  /\ manifests' = [manifests EXCEPT ![man.pkgbuilddir] = save(man)]
  /\ synced' = TRUE
  /\ fresh' = NoFresh
  /\ UNCHANGED <<man, bvars, xvars, yvars>>

\* Manifest(man.pkgname, man.pkgbuilddir).load()
ManifestLoadFresh ==
  /\ LET l == load(Manifest(man.pkgname, man.pkgbuilddir),
                   manifests[man.pkgbuilddir])
     IN fresh' = [called |-> TRUE, m |-> l.m, ok |-> l.ok, raised |-> l.raised]
  /\ UNCHANGED <<man, synced, manifests, bvars, xvars, yvars>>

\* man.load()
ManifestLoad ==
  /\ man' = load(man, manifests[man.pkgbuilddir]).m
  /\ synced' = (synced /\ man' = man)
  /\ UNCHANGED <<fresh, manifests, bvars, xvars, yvars>>

\* man.reset()
ManifestReset ==
  /\ man' = reset(man)
  /\ synced' = (synced /\ man' = man)
  /\ UNCHANGED <<fresh, manifests, bvars, xvars, yvars>>

ManifestNext ==
  \/ ManifestSave
  \/ ManifestLoadFresh
  \/ ManifestLoad
  \/ ManifestReset

ManifestSpec == ManifestInit /\ [][ManifestNext]_vars

(***************************************************************************)
(* Properties of the Builder                                               *)
(***************************************************************************)
Frames == {stack[i] : i \in 1..Len(stack)}

\* The caller's build() is about to return.
Returning == Len(stack) = 1 /\ stack[1].pc = "done"

\* C1: when the build() before this one on the same Builder returned
\* packages, and the runtime packages the Builder held all existed when this
\* build(rebuild=False) was called, this call runs makepkg on nothing and
\* returns the set the one before returned.
C1_Idempotent ==
  (/\ Returning
   /\ ~ stack[1].rebuild
   /\ prev.kind = "returned"
   /\ prev.value # {}
   /\ stack[1].startok)
  => (invoked = {} /\ stack[1].retval = prev.value)

C1_Witness ==
  /\ Returning
  /\ ~ stack[1].rebuild
  /\ prev = Returned({"P.pkg", "D.pkg"})
  /\ stack[1].startok
  /\ stack[1].makedepends = {"M.pkg"}
  /\ "M.pkg" \notin files
  /\ invoked = {}
  /\ stack[1].retval = {"P.pkg", "D.pkg"}

\* C2: when a Builder's first makepkg run failed, dependencies it reported
\* were built, and its second run succeeded, then every declared dependency
\* that was built had its packages among the paths given to the second run,
\* and the manifest written holds the Builder's own packages under packages
\* and the dependency's packages under the set of its declared type.
C2_DiscoverAndRetry ==
  \A f \in Frames :
    (f.pc = "done" /\ f.attempts = 2 /\ f.rc = 0 /\ f.retval # {})
    => LET j == manifests[f.pkgbuild]
       IN /\ f.args[1] \subseteq f.args[2]
          /\ j.kind = "json"
          /\ packagelist(f.pkgbuild) \subseteq set(j.packages)
          /\ \A c \in f.built :
               LET t == dependency_type(f.pkgbuild, c.dep)
               IN /\ t # "None" => c.packages \subseteq f.args[2]
                  /\ t = "depends" => c.packages \subseteq set(j.depends)
                  /\ t = "makedepends" => c.packages \subseteq set(j.makedepends)

C2_Witness ==
  /\ Returning
  /\ stack[1].name = P
  /\ stack[1].args = << {}, {"D.pkg"} >>
  /\ stack[1].rc = 0
  /\ stack[1].built = {[dep |-> D, packages |-> {"D.pkg"}]}
  /\ D \in invoked
  /\ stack[1].retval = {"P.pkg", "D.pkg"}
  /\ set(manifests[P].packages) = {"P.pkg"}
  /\ set(manifests[P].depends) = {"D.pkg"}

\* C3: no build() is cut off by the interpreter for nesting Builders without
\* end: whatever makepkg reports, the call returns a set or raises one of
\* the program's errors.
C3_Terminates == result.kind # "RecursionError"

\* C4: a Builder runs makepkg at most twice in one build(); it reads stdout
\* for missing dependencies only after its first run failed; and when its
\* second run fails it returns the empty set.
C4_SingleRetry ==
  \A f \in Frames :
    /\ f.attempts <= 2
    /\ f.attempts >= f.iter - 1
    /\ f.pc \in {"discover", "child"}
         => (f.iter = 1 /\ f.attempts = 1 /\ f.rc # 0)
    /\ (f.attempts = 2 /\ f.rc # 0)
         => (f.pc = "done" /\ f.retval = {})

C4_Witness ==
  /\ Returning
  /\ stack[1].attempts = 2
  /\ stack[1].rc # 0
  /\ stack[1].retval = {}
  /\ stack[1].depends # {}

\* C5: when the build of a reported dependency returns, its packages are
\* added to depends if the parent's source declares the name as a runtime
\* dependency and to makedepends otherwise, and to that set alone.
C5_Classification ==
  [][(/\ Len(stack) >= 2
      /\ Top.pc = "done"
      /\ Len(stack') = Len(stack) - 1)
     => LET parent == stack[Len(stack) - 1]
            after == stack'[Len(stack')]
        IN IF Top.name \in DOMAIN depends(parent.pkgbuild)
           THEN /\ after.depends = parent.depends \cup Top.packages
                /\ after.makedepends = parent.makedepends
           ELSE /\ after.makedepends = parent.makedepends \cup Top.packages
                /\ after.depends = parent.depends]_vars

\* C6: a build() that ends in failure (it returns the empty set or raises
\* one of the program's errors) has left the manifest of its build
\* directory unwritten.
C6_NoManifestOnFailure ==
  /\ (stack = <<>> /\ result.kind \in TypedErrors) => saved = {}
  /\ (/\ Len(stack) = 1
      /\ \/ stack[1].pc = "done" /\ stack[1].retval = {}
         \/ stack[1].pc = "raised" /\ result.kind \in TypedErrors)
     => stack[1].pkgbuild \notin saved

\* C7: the first makepkg run of a build(rebuild=True) is given no dependency
\* paths.
C7_RebuildStartsClean ==
  \A f \in Frames :
    (f.rebuild /\ f.attempts >= 1) => f.args[1] = {}

C14_DependencyResolution ==
  (/\ Len(stack) = 1
   /\ stack[1].pc = "raised"
   /\ result.kind \in TypedErrors)
  => result.kind = "SourceNotFoundError"

(***************************************************************************)
(* Properties of the Manifest                                              *)
(***************************************************************************)
\* C9: when a newly constructed Manifest of the same build directory loads
\* the file a Manifest has just saved, the load succeeds and the new
\* Manifest holds the packages, depends and makedepends sets of the one that
\* saved.
C9_RoundTrip ==
  (synced /\ fresh.called)
  => /\ ~ fresh.raised
     /\ fresh.ok
     /\ fresh.m.packages = man.packages
     /\ fresh.m.depends = man.depends
     /\ fresh.m.makedepends = man.makedepends

C9_Witness ==
  /\ synced
  /\ fresh.called
  /\ man.packages = {"P.pkg"}
  /\ man.depends = {"D.pkg"}
  /\ man.makedepends = {"M.pkg", "D.pkg"}
  /\ fresh.m.depends = {"D.pkg"}
  /\ fresh.m.makedepends = {"M.pkg", "D.pkg"}

\* C10: load() does not raise, and it returns an empty result unless the
\* file is a record holding name, packages, depends and makedepends.
C10_LoadNeverRaises ==
  fresh.called
  => /\ ~ fresh.raised
     /\ LET j == manifests[man.pkgbuilddir]
        IN fresh.ok
           => (j.kind = "json" /\
               {"name", "packages", "depends", "makedepends"} \subseteq j.keys)

(***************************************************************************)
(* Manifest.verify called on every Manifest state over every set of        *)
(* existing files.                                                         *)
(***************************************************************************)
VerifyInit ==
  /\ files \in SUBSET Paths
  /\ manifests = [dir \in Buildable |-> Absent]
  /\ stack = <<>>
  /\ result = NoResult
  /\ prev = NoResult
  /\ invoked = {}
  /\ saved = {}
  /\ man \in {[Manifest(P, P) EXCEPT !.packages = a, !.depends = b,
                                      !.makedepends = c] :
               a \in SUBSET Paths, b \in SUBSET Paths, c \in SUBSET Paths}
  /\ fresh = NoFresh
  /\ synced = FALSE
  /\ call = NoCall
  /\ ldir = LocalDir(<<>>)
  /\ pac = NoInstall
  /\ pkgaur = NoAur
  /\ cli = NoCli
  /\ pair = NoSync
  /\ cmd = NoCmd

\* man.verify(paths) when explicit, man.verify() otherwise (paths is then
\* the default argument, the empty set).
ManifestVerify(explicit, paths) ==
  /\ ~ explicit => paths = {}
  /\ call' = [fn |-> "verify",
              args |-> [explicit |-> explicit, paths |-> paths],
              out |-> verify(man, paths, files)]
  /\ UNCHANGED <<manifests, bvars, mvars, ldir, pac, yvars>>

VerifyNext ==
  \E explicit \in BOOLEAN, paths \in SUBSET Paths :
    ManifestVerify(explicit, paths)

VerifySpec == VerifyInit /\ [][VerifyNext]_vars

\* C11 as claimed: verify(paths) returns true iff every path of the set it
\* was given exists, verify() returns true iff every path of packages and
\* depends exists, and a call changes no manifest field and no file.
C11_VerifyExact ==
  /\ [](call.fn = "verify"
        => LET checked == IF call.args.explicit THEN call.args.paths
                          ELSE man.packages \cup man.depends
           IN call.out <=> (\A p \in checked : p \in files))
  /\ [][call' # call => UNCHANGED <<man, files, manifests>>]_vars

\* C11 as amended: verify(paths) with a non-empty set returns true iff every
\* path of that set exists; verify() and verify(paths) with the empty set
\* return true iff every path of packages and depends exists; a call changes
\* no manifest field and no file.
C11_VerifyExactNonEmpty ==
  /\ [](call.fn = "verify"
        => LET checked == IF call.args.paths # {} THEN call.args.paths
                          ELSE man.packages \cup man.depends
           IN call.out <=> (\A p \in checked : p \in files))
  /\ [][call' # call => UNCHANGED <<man, files, manifests>>]_vars

C11_Witness ==
  /\ call.fn = "verify"
  /\ call.args = [explicit |-> TRUE, paths |-> {"M.pkg"}]
  /\ man.packages = {"P.pkg"}
  /\ man.depends = {"D.pkg"}
  /\ files = {"M.pkg"}
  /\ call.out = TRUE

(***************************************************************************)
(* builder.py: Manifest.install on every Manifest state.  A pacman         *)
(* invocation is recorded with its flags, its paths and its exit code.     *)
(***************************************************************************)
InstallInit ==
  /\ files = {}
  /\ manifests = [dir \in Buildable |-> Absent]
  /\ stack = <<>>
  /\ result = NoResult
  /\ prev = NoResult
  /\ invoked = {}
  /\ saved = {}
  /\ man \in {[Manifest(P, P) EXCEPT !.packages = a, !.depends = b,
                                      !.makedepends = c] :
               a \in SUBSET Paths, b \in SUBSET Paths, c \in SUBSET Paths}
  /\ fresh = NoFresh
  /\ synced = FALSE
  /\ call = NoCall
  /\ ldir = LocalDir(<<>>)
  /\ pac = NoInstall
  /\ pkgaur = NoAur
  /\ cli = NoCli
  /\ pair = NoSync
  /\ cmd = NoCmd

\* install, lines 153-161: the arguments common to both invocations.
InstallCall(reinstall, pacman_conf, sysroot) ==
  /\ pac.pc = "idle"
  /\ pac' = [pc |-> IF man.depends # {} THEN "deps" ELSE "pkgs",
             flags |-> {"-U"}
                       \cup (IF ~ reinstall THEN {"--needed"} ELSE {})
                       \cup (IF pacman_conf THEN {"--config"} ELSE {})
                       \cup (IF sysroot THEN {"--sysroot"} ELSE {}),
             log |-> <<>>]
  /\ UNCHANGED <<manifests, bvars, mvars, call, ldir, yvars>>

\* A variant that goes on whatever pacman's exit code.
PacmanDeps_unchecked(rc) ==
  /\ pac.pc = "deps"
  /\ pac' = [pac EXCEPT
               !.log = Append(@, [flags |-> pac.flags \cup {"--asdeps"},
                                  paths |-> man.depends, rc |-> rc]),
               !.pc = "pkgs"]
  /\ UNCHANGED <<manifests, bvars, mvars, call, ldir, yvars>>

\* install, lines 162-165: pacman on the dependencies; a non-zero exit code
\* raises CalledProcessError out of install.
PacmanDeps(rc) ==
  /\ pac.pc = "deps"
  /\ pac' = [pac EXCEPT
               !.log = Append(@, [flags |-> pac.flags \cup {"--asdeps"},
                                  paths |-> man.depends, rc |-> rc]),
               !.pc = IF rc = 0 THEN "pkgs" ELSE "raised"]
  /\ UNCHANGED <<manifests, bvars, mvars, call, ldir, yvars>>

\* install, lines 166-168: pacman on the packages.
PacmanPackages(rc) ==
  /\ pac.pc = "pkgs"
  /\ pac' = [pac EXCEPT
               !.log = Append(@, [flags |-> pac.flags,
                                  paths |-> man.packages, rc |-> rc]),
               !.pc = IF rc = 0 THEN "done" ELSE "raised"]
  /\ UNCHANGED <<manifests, bvars, mvars, call, ldir, yvars>>

InstallNext ==
  \/ \E reinstall \in BOOLEAN, pacman_conf \in BOOLEAN, sysroot \in BOOLEAN :
       InstallCall(reinstall, pacman_conf, sysroot)
  \/ \E rc \in {0, 1} : PacmanDeps(rc)
  \/ \E rc \in {0, 1} : PacmanPackages(rc)

InstallSpec == InstallInit /\ [][InstallNext]_vars

\* C12: install makes at most one pacman invocation with --asdeps and at
\* most one without it.  The one with --asdeps is made whenever depends is
\* not empty, is the first, and carries all of depends; the one without
\* carries all of packages, and is made only after the one with --asdeps,
\* if there was one, exited with 0.  An install that returns has made the
\* invocation without --asdeps last.
C12_InstallOrder ==
  LET log == pac.log
      asdeps(i) == "--asdeps" \in log[i].flags
  IN /\ Len(log) <= 2
     /\ \A i \in 1..Len(log) :
          /\ asdeps(i) => (i = 1 /\ log[i].paths = man.depends)
          /\ ~ asdeps(i) =>
               /\ log[i].paths = man.packages
               /\ i = Len(log)
               /\ man.depends # {} =>
                    (i = 2 /\ asdeps(1) /\ log[1].rc = 0)
     /\ (log # <<>> /\ man.depends # {}) => asdeps(1)
     /\ (Len(log) = 2) => (asdeps(1) /\ ~ asdeps(2))
     /\ pac.pc = "done" => (log # <<>> /\ ~ asdeps(Len(log)))

C12_Witness ==
  /\ pac.pc = "done"
  /\ Len(pac.log) = 2
  /\ pac.log[1] = [flags |-> {"-U", "--needed", "--asdeps"},
                   paths |-> {"D.pkg", "M.pkg"}, rc |-> 0]
  /\ pac.log[2] = [flags |-> {"-U", "--needed"},
                   paths |-> {"P.pkg"}, rc |-> 0]

(***************************************************************************)
(* pkgbuild.py: the functions that change nothing, each called on every    *)
(* input of a bounded set.  They keep no state, so a behaviour makes one   *)
(* call.                                                                   *)
(***************************************************************************)
PureInit ==
  /\ files = {}
  /\ manifests = [dir \in Buildable |-> Absent]
  /\ stack = <<>>
  /\ result = NoResult
  /\ prev = NoResult
  /\ invoked = {}
  /\ saved = {}
  /\ man = Manifest(P, P)
  /\ fresh = NoFresh
  /\ synced = FALSE
  /\ call = NoCall
  /\ ldir = LocalDir(<<>>)
  /\ pac = NoInstall
  /\ pkgaur = NoAur
  /\ cli = NoCli
  /\ pair = NoSync
  /\ cmd = NoCmd

\* Pkgbuild.new(name, builddir, localdir, source) where dirs are the
\* directories under localdir, withPkgbuild those that hold a PKGBUILD and
\* aur the names the AUR knows.
Resolve(name, dirs, withPkgbuild, source, aur) ==
  /\ call = NoCall
  /\ withPkgbuild \subseteq dirs
  /\ call' = [fn |-> "new",
              args |-> [name |-> name, dirs |-> dirs,
                        withPkgbuild |-> withPkgbuild, source |-> source,
                        aur |-> aur],
              out |-> Pkgbuild_new(name, dirs, withPkgbuild, source, aur)]
  /\ UNCHANGED <<manifests, bvars, mvars, ldir, pac, yvars>>

\* The longest dependency token parsed.
MaxToken == 5
\* The most restrictions in one list.
MaxRestrictions == 2

\* Dependency tokens: a letter, a digit and the comparator characters.
Tokens ==
  UNION {[1..n -> {"a", "1", "<", ">", "="}] : n \in 1..MaxToken}

\* Version strings, among them two that order differently as numbers.
Versions == {<<"1">>, <<"2">>, <<"9">>, <<"1", "0">>}

VersionRestrictions ==
  UNION {[1..n -> {Restriction(c, w) : c \in Range(Comparators),
                                       w \in Versions}] :
         n \in 0..MaxRestrictions}

\* parse_restriction(pkg)
Parse(pkg) ==
  /\ call = NoCall
  /\ call' = [fn |-> "parse_restriction", args |-> pkg,
              out |-> parse_restriction(pkg)]
  /\ UNCHANGED <<manifests, bvars, mvars, ldir, pac, yvars>>

\* restrict_version(v, restrictions), the function local to providers.
RestrictVersion(v, restrictions) ==
  /\ call = NoCall
  /\ call' = [fn |-> "restrict_version",
              args |-> [v |-> v, restrictions |-> restrictions],
              out |-> restrict_version(v, restrictions)]
  /\ UNCHANGED <<manifests, bvars, mvars, ldir, pac, yvars>>

\* The most entries in one dependency field of a .SRCINFO.
MaxDeclared == 3

\* What a dependency field may list of one name: the name alone and the name
\* with a restriction.
Declarations ==
  { <<"a">>, <<"a", ">", "1">>, <<"a", "<", "2">>, <<"a", "=", "1">> }

DeclarationLists ==
  UNION {[1..n -> Declarations] : n \in 0..MaxDeclared}

\* _get_depends(srcinfo_deps)
GetDepends(srcinfo_deps) ==
  /\ call = NoCall
  /\ call' = [fn |-> "_get_depends", args |-> srcinfo_deps,
              out |-> get_depends(srcinfo_deps)]
  /\ UNCHANGED <<manifests, bvars, mvars, ldir, pac, yvars>>

\* The most answers the package manager reads before it closes its input.
MaxAnswers == 2

\* repeat('y\n'): an iterator that never ends; a list is one that ends.
repeat(item) == [endless |-> TRUE, items |-> <<item>>]
Listed(items) == [endless |-> FALSE, items |-> items]

\* `confirm and [] or repeat('y\n')`: `x and y or z` is y when x and y are
\* both truthy and z otherwise, and the empty list is falsy.
Answers(confirm) ==
  IF confirm /\ Len(<<>>) # 0 THEN Listed(<<>>) ELSE repeat("y")

\* write_stdin(cmd, iter) against a subprocess that takes `reads` writes
\* before it closes its input and exits with rc: every item is written until
\* a write meets the closed pipe; wait() raises on a non-zero exit.
write_stdin(iter, reads, rc) ==
  [written |-> IF iter.endless \/ Len(iter.items) > reads
               THEN [k \in 1..reads |-> iter.items[IF iter.endless THEN 1 ELSE k]]
               ELSE iter.items,
   closed |-> ~ (iter.endless \/ Len(iter.items) > reads),
   raised |-> IF rc # 0 THEN "CalledProcessError" ELSE "None"]

\* pacman(args, confirm)
Pacman(confirm, reads, rc) ==
  /\ call = NoCall
  /\ call' = [fn |-> "pacman",
              args |-> [confirm |-> confirm, reads |-> reads, rc |-> rc],
              out |-> write_stdin(Answers(confirm), reads, rc)]
  /\ UNCHANGED <<manifests, bvars, mvars, ldir, pac, yvars>>

\* What the build directory of an AUR package may be before an update.
BuildDirs == {"absent", "repository", "directory"}

\* The methods class GitRepo defines.
GitRepoMethods == {"_git", "is_repo", "pull", "clone"}

\* GitRepo.clone(url) on a path that exists or not, with a git that fails
\* or not.
clone(exists, gitfails) ==
  IF exists THEN [ops |-> <<>>, raised |-> "FileExistsError"]
  ELSE [ops |-> <<"clone">>,
        raised |-> IF gitfails THEN "CalledProcessError" ELSE "None"]

\* AurPkgbuild._update() where uptodate is what an up_to_date method would
\* answer: ops are the changes made to the build directory, in order.
AurPkgbuild_update(builddir, uptodate, gitfails) ==
  IF builddir # "absent"
  THEN IF builddir = "repository"
       THEN IF "up_to_date" \notin GitRepoMethods
            THEN [ops |-> <<>>, raised |-> "AttributeError", ret |-> "none"]
            ELSE IF uptodate
            THEN [ops |-> <<>>, raised |-> "None", ret |-> "False"]
            ELSE [ops |-> <<"pull">>,
                  raised |-> IF gitfails THEN "CalledProcessError" ELSE "None",
                  ret |-> IF gitfails THEN "none" ELSE "True"]
       ELSE LET c == clone(FALSE, gitfails)
            IN [ops |-> <<"remove">> \o c.ops, raised |-> c.raised,
                ret |-> IF c.raised = "None" THEN "True" ELSE "none"]
  ELSE LET c == clone(FALSE, gitfails)
       IN [ops |-> c.ops, raised |-> c.raised,
           ret |-> IF c.raised = "None" THEN "True" ELSE "none"]

\* AurPkgbuild._update()
AurUpdate(builddir, uptodate, gitfails) ==
  /\ call = NoCall
  /\ call' = [fn |-> "_update",
              args |-> [builddir |-> builddir, uptodate |-> uptodate,
                        gitfails |-> gitfails],
              out |-> AurPkgbuild_update(builddir, uptodate, gitfails)]
  /\ UNCHANGED <<manifests, bvars, mvars, ldir, pac, yvars>>

PureNext ==
  \/ \E name \in {P, U}, dirs \in SUBSET {P, U}, withPkgbuild \in SUBSET {P, U},
        source \in {"None", "Local", "Aur"}, aur \in SUBSET {P, U} :
       Resolve(name, dirs, withPkgbuild, source, aur)
  \/ \E pkg \in Tokens : Parse(pkg)
  \/ \E v \in Versions, restrictions \in VersionRestrictions :
       RestrictVersion(v, restrictions)
  \/ \E srcinfo_deps \in DeclarationLists : GetDepends(srcinfo_deps)
  \/ \E confirm \in BOOLEAN, reads \in 0..MaxAnswers, rc \in {0, 1} :
       Pacman(confirm, reads, rc)
  \/ \E builddir \in BuildDirs, uptodate \in BOOLEAN, gitfails \in BOOLEAN :
       AurUpdate(builddir, uptodate, gitfails)

PureSpec == PureInit /\ [][PureNext]_vars

\* C13: Pkgbuild.new has exactly one outcome for every combination of
\* inputs, the one the decision table gives: NoPkgbuildError when the
\* directory exists without a PKGBUILD; a local source when it exists with
\* one and the flag is not Aur; SourceNotFoundError tagged Local when there
\* is no directory and the flag is Local; otherwise a remote source when the
\* AUR knows the name and SourceNotFoundError tagged Aur when it does not.
C13_DecisionTable ==
  call.fn = "new" =>
    LET a == call.args
        exists == a.name \in a.dirs
        has == a.name \in a.withPkgbuild
        known == a.name \in a.aur
        remote == \/ (~ exists /\ a.source = "None")
                  \/ (a.source = "Aur" /\ (exists => has))
        o == call.out
    IN /\ (exists /\ ~ has) => o.kind = "NoPkgbuildError"
       /\ (exists /\ has /\ a.source # "Aur") => o.kind = "LocalPkgbuild"
       /\ (~ exists /\ a.source = "Local")
            => (o.kind = "SourceNotFoundError" /\ o.source = "Local")
       /\ (remote /\ known) => o.kind = "AurPkgbuild"
       /\ (remote /\ ~ known)
            => (o.kind = "SourceNotFoundError" /\ o.source = "Aur")
       /\ o.kind \in {"NoPkgbuildError", "LocalPkgbuild", "AurPkgbuild",
                      "SourceNotFoundError"}

C13_Witness ==
  /\ call.fn = "new"
  /\ call.args.name = P
  /\ call.args.dirs = {P, U}
  /\ call.args.withPkgbuild = {U}
  /\ call.args.source = "Aur"
  /\ call.args.aur = {P}
  /\ call.out.kind = "NoPkgbuildError"

(***************************************************************************)
(* pkgbuild.py: a LocalDir over every tree made of a few directories:      *)
(* with and without a PKGBUILD, with and without provides, two of them     *)
(* providing the same name at the same version.                            *)
(***************************************************************************)
\* The most directories in a tree.
MaxTree == 3
\* The most scans of one LocalDir.
MaxScans == 2

Info(pkgbase, pkgver, provides) ==
  [pkgbase |-> pkgbase, pkgver |-> pkgver, provides |-> provides,
   depends |-> <<>>, makedepends |-> <<>>]

Directories ==
  { [name |-> <<"A">>, pkgbuild |-> TRUE,
     info |-> Info(<<"A">>, <<"1">>, <<>>)],
    [name |-> <<"B">>, pkgbuild |-> TRUE,
     info |-> Info(<<"B">>, <<"2">>, << <<"V", "=", "2">> >>)],
    [name |-> <<"C">>, pkgbuild |-> TRUE,
     info |-> Info(<<"C">>, <<"1">>, << <<"V", "=", "3">>, <<"W">> >>)],
    [name |-> <<"F">>, pkgbuild |-> TRUE,
     info |-> Info(<<"F">>, <<"3">>, << <<"V">> >>)],
    [name |-> <<"E">>, pkgbuild |-> FALSE,
     info |-> Info(<<>>, <<>>, <<>>)] }

\* The trees: up to MaxTree different directories, in any scan order.
Trees ==
  UNION {{t \in [1..n -> Directories] :
            \A i \in 1..n, j \in 1..n : t[i] = t[j] => i = j} :
         n \in 0..MaxTree}

RestrictionLists ==
  { <<>>,
    << Restriction(<<">">>, <<"1">>) >>,
    << Restriction(<<">">>, <<"2">>) >>,
    << Restriction(<<"<">>, <<"2">>) >>,
    << Restriction(<<"=">>, <<"3">>) >>,
    << Restriction(<<">", "=">>, <<"2">>), Restriction(<<"<">>, <<"3">>) >> }

LocalDirInit ==
  /\ files = {}
  /\ manifests = [dir \in Buildable |-> Absent]
  /\ stack = <<>>
  /\ result = NoResult
  /\ prev = NoResult
  /\ invoked = {}
  /\ saved = {}
  /\ man = Manifest(P, P)
  /\ fresh = NoFresh
  /\ synced = FALSE
  /\ call = NoCall
  /\ ldir \in {LocalDir(t) : t \in Trees}
  /\ pac = NoInstall
  /\ pkgaur = NoAur
  /\ cli = NoCli
  /\ pair = NoSync
  /\ cmd = NoCmd

\* ldir.update(force)
LocalDirUpdate(force) ==
  /\ ldir.scans < MaxScans
  /\ ldir' = update(ldir, force)
  /\ call' = [fn |-> "update", args |-> force, out |-> ldir'.packages]
  /\ UNCHANGED <<manifests, bvars, mvars, pac, yvars>>

\* ldir.providers(name, restrictions)
LocalDirProviders(name, restrictions) ==
  /\ LET ps == providers(ldir.packages, name, restrictions)
     IN call' = [fn |-> "providers",
                 args |-> [name |-> name, restrictions |-> restrictions],
                 out |-> IF ps = <<>>
                         THEN [kind |-> "ProviderNotFoundError",
                               pkgbuilds |-> <<>>,
                               err |-> providers_err(name, restrictions)]
                         ELSE [kind |-> "returned", pkgbuilds |-> ps,
                               err |-> <<>>]]
  /\ UNCHANGED <<manifests, bvars, mvars, ldir, pac, yvars>>

LocalDirNext ==
  \/ \E force \in BOOLEAN : LocalDirUpdate(force)
  \/ \E name \in {<<"A">>, <<"B">>, <<"E">>, <<"V">>, <<"W">>},
        restrictions \in RestrictionLists :
       LocalDirProviders(name, restrictions)

LocalDirSpec == LocalDirInit /\ [][LocalDirNext]_vars

\* An entry of the index is registered under the name at a version that
\* satisfies the restrictions.
Matches(entry, name, restrictions) ==
  /\ entry.pkg.name = name
  /\ restrict_version(entry.pkg.version, restrictions)

\* C15: providers(name, restrictions) returns a non-empty list, every
\* element of which is a provider registered under the name at a version
\* that satisfies every restriction; it raises ProviderNotFoundError exactly
\* when no entry of the index is such, and the error then carries the
\* restriction list that was passed.
C15_RestrictionFiltering ==
  call.fn = "providers" =>
    LET a == call.args
        o == call.out
        idx == ldir.packages
        some == \E j \in 1..Len(idx) : Matches(idx[j], a.name, a.restrictions)
    IN /\ o.kind = "returned" =>
            /\ o.pkgbuilds # <<>>
            /\ \A k \in 1..Len(o.pkgbuilds) :
                 \E j \in 1..Len(idx) :
                   /\ Matches(idx[j], a.name, a.restrictions)
                   /\ o.pkgbuilds[k] \in Range(idx[j].pkgbuilds)
       /\ o.kind = "ProviderNotFoundError" <=> ~ some
       /\ o.kind = "ProviderNotFoundError" =>
            o.err.version_restrictions = a.restrictions

C15_Witness ==
  /\ call.fn = "providers"
  /\ call.args = [name |-> <<"V">>,
                  restrictions |-> << Restriction(<<">">>, <<"2">>) >>]
  /\ ldir.packages # <<>>
  /\ ldir.packages[1].pkg = Package(<<"V">>, <<"2">>)
  /\ call.out.kind = "returned"
  /\ call.out.pkgbuilds = << <<"C">> >>

\* The providers of every entry that matches, in the order of the index.
RECURSIVE AllProviders(_, _, _, _)
AllProviders(k, idx, name, restrictions) ==
  IF k > Len(idx) THEN <<>>
  ELSE (IF Matches(idx[k], name, restrictions) THEN idx[k].pkgbuilds ELSE <<>>)
       \o AllProviders(k + 1, idx, name, restrictions)

\* C16: the list providers(name, restrictions) returns holds the providers
\* of every entry of the name whose version satisfies the restrictions, in
\* scan order.
C16_FullMatchingList ==
  (call.fn = "providers" /\ call.out.kind = "returned")
  => call.out.pkgbuilds =
       AllProviders(1, ldir.packages, call.args.name, call.args.restrictions)

\* The index lists the directory under the (name, version) key.
Registered(idx, name, version, dir) ==
  \E j \in 1..Len(idx) :
    /\ idx[j].pkg = Package(name, version)
    /\ dir \in Range(idx[j].pkgbuilds)

\* C17: after update(), every directory of the tree that holds a PKGBUILD is
\* registered under (pkgbase, pkgver) and under every name it provides, and
\* no directory without a PKGBUILD is registered.
C17_Registration ==
  ldir.scans >= 1 =>
    \A i \in 1..Len(ldir.path) :
      LET e == ldir.path[i]
      IN IF e.pkgbuild
         THEN /\ Registered(ldir.packages, e.info.pkgbase, e.info.pkgver,
                            e.name)
              /\ \A k \in 1..Len(e.info.provides) :
                   LET s == Split(e.info.provides[k], "=")
                   IN \E j \in 1..Len(ldir.packages) :
                        /\ ldir.packages[j].pkg.name = s[1]
                        /\ e.name \in Range(ldir.packages[j].pkgbuilds)
         ELSE \A j \in 1..Len(ldir.packages) :
                e.name \notin Range(ldir.packages[j].pkgbuilds)

\* C18: once a scan has been made, update() without force leaves the index
\* as it is, and after any number of updates of the unchanged tree the index
\* is the one a single scan gives, no provider twice under one key.
C18_ReuseAndRescan ==
  /\ [](ldir.scans >= 1 =>
          /\ ldir.packages = UpdateFrom(1, ldir.path, <<>>)
          /\ \A j \in 1..Len(ldir.packages) :
               \A a \in 1..Len(ldir.packages[j].pkgbuilds),
                  b \in 1..Len(ldir.packages[j].pkgbuilds) :
                 ldir.packages[j].pkgbuilds[a] = ldir.packages[j].pkgbuilds[b]
                   => a = b)
  /\ [][(ldir.scans >= 1 /\ call'.fn = "update" /\ call'.args = FALSE)
          => ldir' = ldir]_vars

\* A non-empty string without a comparator character.
Plain(w) == w # <<>> /\ \A k \in 1..Len(w) : w[k] \notin {"<", ">", "="}

\* C19: for a token made of a plain name, one of the five comparators and a
\* plain version, parse_restriction returns the name and the Restriction of
\* that comparator and version (so >= and <= are never cut into > or <
\* followed by a version that starts with =); for a token without a
\* comparator character it returns the token and no Restriction.
C19_RestrictionParsing ==
  call.fn = "parse_restriction" =>
    LET t == call.args
    IN /\ \A k \in 1..Len(Comparators), i \in 2..Len(t) :
            LET c == Comparators[k]
                name == SubSeq(t, 1, i - 1)
                version == SubSeq(t, i + Len(c), Len(t))
            IN (/\ i + Len(c) <= Len(t)
                /\ SubSeq(t, i, i + Len(c) - 1) = c
                /\ Plain(name)
                /\ Plain(version))
               => call.out = [name |-> name, r |-> Restriction(c, version)]
       /\ Plain(t) => call.out = [name |-> t, r |-> NoRestriction]

C19_Witness ==
  /\ call.fn = "parse_restriction"
  /\ call.args = <<"a", ">", "=", "1", "1">>
  /\ call.out = [name |-> <<"a">>,
                 r |-> Restriction(<<">", "=">>, <<"1", "1">>)]

\* a sorts before b as Python strings: at the first position where they
\* differ a has the smaller character, or a ends there and b does not.
LexLess(a, b) ==
  \E k \in 1..Len(b) :
    /\ k <= Len(a) + 1
    /\ \A j \in 1..(k - 1) : a[j] = b[j]
    /\ k = Len(a) + 1 \/ Ord(a[k]) < Ord(b[k])

\* 'v op w' under string ordering.
Holds(v, op, w) ==
  CASE op = <<">">> -> LexLess(w, v)
    [] op = <<"<">> -> LexLess(v, w)
    [] op = <<"=">> -> v = w
    [] op = <<">", "=">> -> LexLess(w, v) \/ v = w
    [] op = <<"<", "=">> -> LexLess(v, w) \/ v = w

\* C20: restrict_version(v, restrictions) is true iff 'v op version' holds
\* under string ordering for every (op, version) of the list; it is true of
\* the empty list.
C20_ConjunctiveStringOrder ==
  call.fn = "restrict_version" =>
    LET rs == call.args.restrictions
    IN call.out <=>
         \A i \in 1..Len(rs) :
           Holds(call.args.v, rs[i].compare, rs[i].version)

C20_Witness ==
  /\ call.fn = "restrict_version"
  /\ call.args.v = <<"1", "0">>
  /\ call.args.restrictions = << Restriction(<<"<">>, <<"9">>),
                                 Restriction(<<">", "=">>, <<"2">>) >>
  /\ call.out = FALSE

(***************************************************************************)
(* aur.py: Aur                                                             *)
(*                                                                         *)
(* The info of a package is a function of its name, so the cache, a dict   *)
(* from names to infos, is modelled by its keys.  requests holds, for     *)
(* every request sent to the RPC interface, the names it asked for.        *)
(***************************************************************************)
MaxRequests == 3

AurNames == {P, D, U}

\* Aur.__init__, and the names the registry behind its url knows.
Aur(known) == [known |-> known, cache |-> {}, requests |-> <<>>]

\* a.infos(*names): the Aur after it and the names of the dictionary returned.
infos(a, names) ==
  LET cached == {n \in Range(names) : n \in a.cache}
      args == SelectSeq(names, LAMBDA n : n \notin a.cache)
      results == Range(args) \cap a.known
  IN IF args = <<>>
     THEN [aur |-> a, res |-> cached]
     ELSE [aur |-> [a EXCEPT !.cache = @ \cup results,
                             !.requests = Append(@, args)],
           res |-> cached \cup results]

\* a.info(name): "None" stands for None.
info(a, name) ==
  LET r == infos(a, <<name>>)
  IN [aur |-> r.aur, out |-> IF name \in r.res THEN name ELSE "None"]

\* a.get_package(name): the AurPackage of the info, or None.
get_package(a, name) ==
  LET i == info(a, name)
  IN [aur |-> i.aur,
      out |-> IF i.out # "None" THEN [AurPackage |-> i.out] ELSE "None"]

AurInit ==
  /\ files = {}
  /\ manifests = [dir \in Buildable |-> Absent]
  /\ stack = <<>>
  /\ result = NoResult
  /\ prev = NoResult
  /\ invoked = {}
  /\ saved = {}
  /\ man = Manifest(P, P)
  /\ fresh = NoFresh
  /\ synced = FALSE
  /\ call = NoCall
  /\ ldir = LocalDir(<<>>)
  /\ pac = NoInstall
  /\ pkgaur \in {Aur(known) : known \in SUBSET AurNames}
  /\ cli = NoCli
  /\ pair = NoSync
  /\ cmd = NoCmd

\* Pkgbuild.aur.infos(*names)
AurInfos(names) ==
  /\ Len(pkgaur.requests) < MaxRequests
  /\ LET r == infos(pkgaur, names)
     IN /\ pkgaur' = r.aur
        /\ call' = [fn |-> "infos", args |-> names, out |-> r.res]
  /\ UNCHANGED <<manifests, bvars, mvars, ldir, pac, cli, pair, cmd>>

\* Pkgbuild.aur.info(name)
AurInfo(name) ==
  /\ Len(pkgaur.requests) < MaxRequests
  /\ LET r == info(pkgaur, name)
     IN /\ pkgaur' = r.aur
        /\ call' = [fn |-> "info", args |-> name, out |-> r.out]
  /\ UNCHANGED <<manifests, bvars, mvars, ldir, pac, cli, pair, cmd>>

\* Pkgbuild.aur.get_package(name)
AurGetPackage(name) ==
  /\ Len(pkgaur.requests) < MaxRequests
  /\ LET r == get_package(pkgaur, name)
     IN /\ pkgaur' = r.aur
        /\ call' = [fn |-> "get_package", args |-> name, out |-> r.out]
  /\ UNCHANGED <<manifests, bvars, mvars, ldir, pac, cli, pair, cmd>>

AurNext ==
  \/ \E n \in AurNames, m \in AurNames : AurInfos(<<n, m>>)
  \/ \E n \in AurNames : AurInfo(n)
  \/ \E n \in AurNames : AurGetPackage(n)

AurSpec == AurInit /\ [][AurNext]_vars

\* The requests that asked for name n.
RequestsFor(n) ==
  {i \in DOMAIN pkgaur.requests : n \in Range(pkgaur.requests[i])}

\* C21: however often a name is looked up through one Aur, whether it was
\* found or reported not found the first time, at most one request to the RPC
\* interface asks for it.
C21_OneRequestPerName ==
  \A n \in AurNames : Cardinality(RequestsFor(n)) <= 1

(***************************************************************************)
(* Properties of the Builder: errors and failures of dependencies          *)
(***************************************************************************)
\* C22: when resolving a reported dependency raises ProviderNotFoundError or
\* SourceNotFoundError, the caller's build() ends with that error having run
\* makepkg once on its own package, its manifest has not been written, and
\* the manifests and packages of the dependencies built before the error are
\* still on disk.
C22_ResolutionErrorAborts ==
  (/\ Len(stack) = 1
   /\ stack[1].pc = "raised"
   /\ result.kind \in {"ProviderNotFoundError", "SourceNotFoundError"})
  => /\ stack[1].attempts = 1
     /\ stack[1].pkgbuild \notin saved
     /\ \A d \in saved : /\ manifests[d].kind = "json"
                         /\ packagelist(d) \subseteq files

\* C23: a build() during which the _build of a reported dependency returned
\* the empty set returns the empty set itself and has not written the
\* manifest of its package.
C23_FailedDependencyFailsParent ==
  (Returning /\ stack[1].failed)
  => /\ stack[1].retval = {}
     /\ stack[1].pkgbuild \notin saved

(***************************************************************************)
(* __main__.py: main and die                                               *)
(*                                                                         *)
(* cli holds the parsed arguments (names, install, remove, aur), what the  *)
(* run finds outside (the directories under --pkgbuilds, those of them     *)
(* with a PKGBUILD, the names the AUR knows), the position in the loop     *)
(* over the names, the lines written to stderr, the exit status (-1 while  *)
(* running) and the positions of the names install() was called for.      *)
(* failure is the position of the first name whose Builder could not be    *)
(* constructed or whose build() raised or returned no package, 0 if none.  *)
(* pkgbuilds holds the kind of the Pkgbuild of every Builder constructed.  *)
(***************************************************************************)
MaxNames == 2

\* The source argument main gives to Builder: Pkgbuild.Source.Aur is truthy,
\* so it is args.aur, a bool, which equals neither flag of Pkgbuild.Source.
MainSource(aurflag) == IF aurflag THEN "True" ELSE "False"

\* The ways Builder.build() ends: it returns the runtime packages, or the
\* empty set, or an exception leaves it.
BuildOutcomes ==
  {Returned({"pkg"}), Returned({}), Raised("ProviderNotFoundError")}

\* The line die(e) writes, split at ': '.
DieLine(e) ==
  IF e.kind = "NoPkgbuildError"
  THEN <<"ERROR", "Directory does not contain a PKGBUILD file", e.dir>>
  ELSE <<"ERROR", <<"Source for", e.dir, "not found">>, e.source>>

\* die(e): one line on stderr, exit status 1.
die(c, e) ==
  [c EXCEPT !.pc = "exited", !.exit = 1,
            !.stderr = Append(@, DieLine(e)),
            !.failure = IF @ = 0 THEN c.i ELSE @]

\* An exception main does not catch: the interpreter writes the traceback
\* and the exception to stderr and exits with status 1.
Uncaught(c, kind) ==
  [c EXCEPT !.pc = "exited", !.exit = 1,
            !.stderr = @ \o << <<"Traceback (most recent call last)", "">>,
                               <<kind>> >>,
            !.failure = IF @ = 0 THEN c.i ELSE @]

\* The loop of main goes to the next name; main returns after the last.
NextName(c) ==
  IF c.i < Len(c.names)
  THEN [c EXCEPT !.pc = "construct", !.i = @ + 1, !.held = {}]
  ELSE [c EXCEPT !.pc = "exited", !.exit = 0]

CliInit ==
  /\ files = {}
  /\ manifests = [dir \in Buildable |-> Absent]
  /\ stack = <<>>
  /\ result = NoResult
  /\ prev = NoResult
  /\ invoked = {}
  /\ saved = {}
  /\ man = Manifest(P, P)
  /\ fresh = NoFresh
  /\ synced = FALSE
  /\ call = NoCall
  /\ ldir = LocalDir(<<>>)
  /\ pac = NoInstall
  /\ pkgaur = NoAur
  /\ cli \in {[pc |-> "construct", names |-> names, i |-> 1,
               install |-> install, remove |-> remove, aur |-> aurflag,
               dirs |-> dirs, withPkgbuild |-> withPkgbuild,
               known |-> known, stderr |-> <<>>, exit |-> -1,
               held |-> {}, installed |-> <<>>, failure |-> 0,
               pkgbuilds |-> <<>>] :
                names \in UNION {[1..n -> {P, U}] : n \in 1..MaxNames},
                install \in BOOLEAN, remove \in BOOLEAN,
                aurflag \in BOOLEAN,
                dirs \in SUBSET {P, U},
                withPkgbuild \in SUBSET {P, U},
                known \in SUBSET {P, U}}
  /\ cli.withPkgbuild \subseteq cli.dirs
  /\ pair = NoSync
  /\ cmd = NoCmd

\* main, lines 68-76: the Builder of the next name is constructed.
CliConstruct ==
  /\ cli.pc = "construct"
  /\ LET pb == Pkgbuild_new(cli.names[cli.i], cli.dirs, cli.withPkgbuild,
                            MainSource(cli.aur), cli.known)
         c == [cli EXCEPT !.pkgbuilds = Append(@, pb.kind)]
     IN cli' = IF pb.kind = "NoPkgbuildError" THEN die(cli, pb)
               ELSE IF pb.kind = "SourceNotFoundError"
               THEN Uncaught(cli, pb.kind)
               ELSE IF cli.remove THEN NextName(c)
               ELSE [c EXCEPT !.pc = "build"]
  /\ UNCHANGED <<manifests, bvars, mvars, xvars, pkgaur, pair, cmd>>

\* main, lines 77-81: b.build(args.rebuild) ends.
CliBuild(outcome) ==
  /\ cli.pc = "build"
  /\ cli' = IF outcome.kind = "SourceNotFoundError"
            THEN die(cli, [kind |-> outcome.kind, dir |-> cli.names[cli.i],
                           source |-> "Aur"])
            ELSE IF outcome.kind # "returned"
            THEN Uncaught(cli, outcome.kind)
            ELSE LET c == [cli EXCEPT
                             !.held = outcome.value,
                             !.failure = IF @ = 0 /\ outcome.value = {}
                                         THEN cli.i ELSE @]
                 IN IF c.install THEN [c EXCEPT !.pc = "install"]
                    ELSE NextName(c)
  /\ UNCHANGED <<manifests, bvars, mvars, xvars, pkgaur, pair, cmd>>

\* main, line 82, and Builder.install: a Builder that holds no runtime
\* package builds once more, then the packages held are installed.
CliInstall(outcome) ==
  /\ cli.pc = "install"
  /\ cli' = IF cli.held = {} /\ outcome.kind # "returned"
            THEN Uncaught(cli, outcome.kind)
            ELSE NextName([cli EXCEPT !.installed = Append(@, cli.i)])
  /\ UNCHANGED <<manifests, bvars, mvars, xvars, pkgaur, pair, cmd>>

CliNext ==
  \/ CliConstruct
  \/ \E outcome \in BuildOutcomes : CliBuild(outcome)
  \/ \E outcome \in BuildOutcomes : CliInstall(outcome)

CliSpec == CliInit /\ [][CliNext]_vars

\* C24: a run in which the Builder of some name could not be constructed,
\* or its build() raised an error or returned no package, exits with a
\* non-zero status having written exactly one line 'ERROR: <message>:
\* <detail>' to stderr, and installs nothing from that name on.
C24_FailureReported ==
  (cli.pc = "exited" /\ cli.failure # 0)
  => /\ cli.exit # 0
     /\ Len(cli.stderr) = 1
     /\ Len(cli.stderr[1]) = 3
     /\ cli.stderr[1][1] = "ERROR"
     /\ \A k \in DOMAIN cli.installed : cli.installed[k] < cli.failure

(***************************************************************************)
(* utils.py: synctree                                                      *)
(*                                                                         *)
(* A directory is a function from the names of its entries to nodes; a     *)
(* node is a file, with its content and the signature (size and            *)
(* modification time) os.stat gives, or a directory with its entries.     *)
(* pair holds the trees at the paths a and b, and whether b exists.        *)
(***************************************************************************)
MaxTreeDepth == 3

EntryNames == {"x"}

File(content, sig) ==
  [kind |-> "file", content |-> content, sig |-> sig, entries |-> EmptyMap]

Dir(entries) ==
  [kind |-> "dir", content |-> "", sig |-> "", entries |-> entries]

FileNodes == {File(c, s) : c \in {"before", "after"}, s \in {"s1", "s2"}}

\* The directories nested at most n deep.
RECURSIVE DirsOfDepth(_)
DirsOfDepth(n) ==
  IF n = 0 THEN {EmptyMap}
  ELSE LET nodes == FileNodes \cup {Dir(d) : d \in DirsOfDepth(n - 1)}
       IN UNION {[S -> nodes] : S \in SUBSET EntryNames}

\* filecmp.cmp(f1, f2, shallow=True), as dircmp uses it: files of equal
\* signature are taken to be equal, the others are read.
cmp_shallow(f1, f2) == f1.sig = f2.sig \/ f1.content = f2.content

\* The attributes of dircmp(a, b) that synctree reads.
left_only(a, b) == DOMAIN a \ DOMAIN b

right_only(a, b) == DOMAIN b \ DOMAIN a

common_dirs(a, b) ==
  {n \in DOMAIN a \cap DOMAIN b : a[n].kind = "dir" /\ b[n].kind = "dir"}

diff_files(a, b) ==
  {n \in DOMAIN a \cap DOMAIN b :
     a[n].kind = "file" /\ b[n].kind = "file" /\ ~ cmp_shallow(a[n], b[n])}

\* sync(cmp) of synctree, for cmp = dircmp(a, b): the directory at b after
\* it.  copytree and copy2 make the entry of b the entry of a, rmtree and
\* os.remove take the entry away.
sync(a, b) ==
  [n \in (DOMAIN b \ right_only(a, b)) \cup left_only(a, b) |->
     IF n \in left_only(a, b) \cup diff_files(a, b) THEN a[n] ELSE b[n]]

\* synctree(a, b): the tree at b after it.  sync runs on dircmp(a, b) and on
\* the dircmp of each of its common subdirectories.
synctree(a, b, bexists) ==
  IF ~ bexists THEN a
  ELSE LET top == sync(a, b)
       IN [n \in DOMAIN top |->
             IF n \in common_dirs(a, b)
             THEN Dir(sync(a[n].entries, b[n].entries))
             ELSE top[n]]

SyncInit ==
  /\ files = {}
  /\ manifests = [dir \in Buildable |-> Absent]
  /\ stack = <<>>
  /\ result = NoResult
  /\ prev = NoResult
  /\ invoked = {}
  /\ saved = {}
  /\ man = Manifest(P, P)
  /\ fresh = NoFresh
  /\ synced = FALSE
  /\ call = NoCall
  /\ ldir = LocalDir(<<>>)
  /\ pac = NoInstall
  /\ pkgaur = NoAur
  /\ cli = NoCli
  /\ pair \in {[pc |-> "idle", a |-> a, b |-> b, bexists |-> e] :
                 a \in DirsOfDepth(MaxTreeDepth),
                 b \in DirsOfDepth(MaxTreeDepth), e \in BOOLEAN}
  /\ pair.bexists \/ pair.b = EmptyMap
  /\ cmd = NoCmd

\* synctree(a, b)
Synctree ==
  /\ pair.pc = "idle"
  /\ pair' = [pair EXCEPT !.pc = "done",
                          !.b = synctree(pair.a, pair.b, pair.bexists),
                          !.bexists = TRUE]
  /\ UNCHANGED <<manifests, bvars, mvars, xvars, pkgaur, cli, cmd>>

SyncNext == Synctree

SyncSpec == SyncInit /\ [][SyncNext]_vars

\* The trees a and b hold the same directories and the same files with the
\* same contents.
RECURSIVE SameTree(_, _)
SameTree(a, b) ==
  /\ DOMAIN a = DOMAIN b
  /\ \A n \in DOMAIN a :
       /\ a[n].kind = b[n].kind
       /\ a[n].kind = "file" => a[n].content = b[n].content
       /\ a[n].kind = "dir" => SameTree(a[n].entries, b[n].entries)

\* C25: after synctree(a, b), whatever the depth of the trees, b holds
\* exactly the directories and files of a, each file with the content it
\* has in a.
C25_SynctreeMirrors ==
  pair.pc = "done" => SameTree(pair.a, pair.b)

\* C26: dependencies are built one at a time and depth first: only the
\* innermost Builder runs, every Builder above it is waiting for the
\* dependency it started while reading the output of its first, failed
\* makepkg run, and has not started its second; and the second run of a
\* Builder is given exactly the packages merged from the dependencies built
\* for it.
C26_DepthFirst ==
  /\ \A i \in 1..(Len(stack) - 1) :
       /\ stack[i].pc = "child"
       /\ stack[i].iter = 1
       /\ stack[i].attempts = 1
  /\ \A f \in Frames : f.attempts = 2 => f.args[2] = f.merged

\* A line of the form 'error: target not found: <name>[<op><version>]'.
IsMissingTarget(line) ==
  Len(line) = 3 /\ line[1] = "error" /\ line[2] = "target not found"

\* C28: reading a line of stdout that is not of the form 'error: target not
\* found: <name>' starts no build of a dependency and raises nothing: the
\* Builder goes on reading.
C28_OtherLinesIgnored ==
  [][\A i \in 1..Len(Lines) :
       (~ IsMissingTarget(Lines[i]) /\ DiscoverLine(Lines[i], MaxDepth))
       => /\ Len(stack') = Len(stack)
          /\ stack'[Len(stack')].pc = "discover"
          /\ result' = result]_vars

\* The keys Manifest.load() reads.
RequiredKeys == {"name", "packages", "depends", "makedepends"}

\* The manifest file of dir holds JSON that lacks a key load() reads.
LacksKey(dir) ==
  /\ manifests[dir].kind = "json"
  /\ ~ (RequiredKeys \subseteq manifests[dir].keys)

\* C29: build(rebuild=False) does with a manifest file that lacks a required
\* key what it does with no manifest file: the step that loads such a file
\* leaves the Builder in the state the same step leaves it in when the file
\* is absent, about to run makepkg for the first time with packages,
\* depends and makedepends empty; it returns nothing from the file, and the
\* first makepkg run of every such build is given no dependency paths.
C29_MalformedAsMissing ==
  /\ [](\A f \in Frames :
          /\ (~ f.rebuild /\ f.pc = "make" /\ f.iter = 1)
               => (f.packages = {} /\ f.depends = {} /\ f.makedepends = {})
          /\ (~ f.rebuild /\ f.attempts >= 1) => f.args[1] = {})
  /\ [][(/\ stack # <<>>
         /\ Top.pc = "enter"
         /\ ~ Top.rebuild
         /\ LacksKey(Top.pkgbuild)
         /\ stack' # stack)
        => /\ stack' = SetTop([reset(load(Top, Absent).m) EXCEPT !.pc = "make"])
           /\ UNCHANGED <<files, manifests, result, invoked, saved>>]_vars

C29_Witness ==
  /\ Len(stack) = 1
  /\ stack[1].pc = "done"
  /\ ~ stack[1].rebuild
  /\ stack[1].attempts = 1
  /\ stack[1].retval = {}
  /\ LacksKey(P)
  /\ "packages" \in manifests[P].keys

(***************************************************************************)
(* Properties of the dependency maps                                       *)
(***************************************************************************)
\* C30: the map _get_depends makes of a dependency field has an entry for
\* every name the field lists, and the entry holds every restriction the
\* field declares for the name, whatever the order of the declarations.
C30_AllRestrictionsKept ==
  call.fn = "_get_depends" =>
    \A k \in 1..Len(call.args) :
      LET pr == parse_restriction(call.args[k])
      IN /\ pr.name \in DOMAIN call.out
         /\ pr.r # NoRestriction => pr.r \in Range(call.out[pr.name])

(***************************************************************************)
(* utils.py: CmdLogger.run                                                 *)
(*                                                                         *)
(* The child process writes the lines of its script, each to stdout or to  *)
(* stderr, and blocks while the pipe it writes to is full; it exits when   *)
(* the script is done, which closes both pipes.  Two _read_and_log         *)
(* coroutines, gathered by _run_and_log, read the pipes.  A line is "ok"   *)
(* or "bad", bytes that line.decode('utf-8') rejects.  cmd holds the       *)
(* script and how far the process is in it, the state of the process, the  *)
(* lines in each pipe, each reader's position and captured lines, the      *)
(* position of _run_and_log, whether it called kill() and wait(), and the  *)
(* lines it returned.                                                      *)
(***************************************************************************)
MaxWrites == 3

PipeCap == 1

Streams == {"stdout", "stderr"}

Scripts ==
  UNION {[1..n -> [stream : Streams, line : {"ok", "bad"}]] :
           n \in 0..MaxWrites}

\* The lines a script writes to stream s, in order.
LinesOf(script, s) ==
  LET sel == SelectSeq(script, LAMBDA w : w.stream = s)
  IN [k \in 1..Len(sel) |-> sel[k].line]

\* asyncio.create_subprocess_exec(*cmd, stdout=PIPE, stderr=PIPE) and the
\* call of gather.
CmdStart(script) ==
  [pc |-> "gather", script |-> script, next |-> 1, proc |-> "running",
   pipe |-> [s \in Streams |-> <<>>],
   reader |-> [s \in Streams |-> [pc |-> "reading", lines |-> <<>>]],
   killed |-> FALSE, waited |-> FALSE,
   out |-> [s \in Streams |-> <<>>]]

CmdInit ==
  /\ files = {}
  /\ manifests = [dir \in Buildable |-> Absent]
  /\ stack = <<>>
  /\ result = NoResult
  /\ prev = NoResult
  /\ invoked = {}
  /\ saved = {}
  /\ man = Manifest(P, P)
  /\ fresh = NoFresh
  /\ synced = FALSE
  /\ call = NoCall
  /\ ldir = LocalDir(<<>>)
  /\ pac = NoInstall
  /\ pkgaur = NoAur
  /\ cli = NoCli
  /\ pair = NoSync
  /\ cmd \in {CmdStart(script) : script \in Scripts}

\* The process writes the next line of its script.
ProcWrite ==
  /\ cmd.proc = "running"
  /\ cmd.next <= Len(cmd.script)
  /\ LET w == cmd.script[cmd.next]
     IN /\ Len(cmd.pipe[w.stream]) < PipeCap
        /\ cmd' = [cmd EXCEPT !.pipe[w.stream] = Append(@, w.line),
                              !.next = @ + 1]
  /\ UNCHANGED <<manifests, bvars, mvars, xvars, pkgaur, cli, pair>>

\* The process exits at the end of its script.
ProcExit ==
  /\ cmd.proc = "running"
  /\ cmd.next > Len(cmd.script)
  /\ cmd' = [cmd EXCEPT !.proc = "exited"]
  /\ UNCHANGED <<manifests, bvars, mvars, xvars, pkgaur, cli, pair>>

\* A variant that reads stderr only when stdout has been read to its end.
Ready_one_at_a_time(c, s) ==
  /\ c.reader[s].pc = "reading"
  /\ s = "stderr" => c.reader["stdout"].pc = "done"

\* The reader of s is scheduled: gather runs both readers as tasks, and the
\* loop runs them until run_until_complete returns.
Ready(c, s) ==
  /\ c.reader[s].pc = "reading"
  /\ c.pc \notin {"returned", "raised"}

\* _read_and_log(stream): one pass of the loop.  readline() gives the next
\* line, or nothing at the end of the stream, when the process is gone and
\* the pipe is empty.
ReadLine(s) ==
  /\ Ready(cmd, s)
  /\ IF cmd.pipe[s] # <<>>
     THEN cmd' = [cmd EXCEPT
                    !.pipe[s] = Tail(@),
                    !.reader[s] =
                      IF Head(cmd.pipe[s]) = "bad"
                      THEN [@ EXCEPT !.pc = "raised"]
                      ELSE [@ EXCEPT !.lines = Append(@, Head(cmd.pipe[s]))]]
     ELSE /\ cmd.proc # "running"
          /\ cmd' = [cmd EXCEPT !.reader[s].pc = "done"]
  /\ UNCHANGED <<manifests, bvars, mvars, xvars, pkgaur, cli, pair>>

\* _run_and_log, lines 58-60: gather returns when both readers have.
GatherReturn ==
  /\ cmd.pc = "gather"
  /\ \A s \in Streams : cmd.reader[s].pc = "done"
  /\ cmd' = [cmd EXCEPT !.pc = "wait"]
  /\ UNCHANGED <<manifests, bvars, mvars, xvars, pkgaur, cli, pair>>

\* _run_and_log, lines 61-63: a reader raised, gather raises, p.kill().
GatherRaise ==
  /\ cmd.pc = "gather"
  /\ \E s \in Streams : cmd.reader[s].pc = "raised"
  /\ cmd' = [cmd EXCEPT !.pc = "wait_raise", !.killed = TRUE,
                        !.proc = IF @ = "running" THEN "killed" ELSE @]
  /\ UNCHANGED <<manifests, bvars, mvars, xvars, pkgaur, cli, pair>>

\* _run_and_log, lines 64-67: p.wait() returns when the process is gone;
\* then the result is returned or the exception raised again.
Wait ==
  /\ cmd.pc \in {"wait", "wait_raise"}
  /\ cmd.proc # "running"
  /\ cmd' = IF cmd.pc = "wait"
            THEN [cmd EXCEPT !.pc = "returned", !.waited = TRUE,
                             !.out = [s \in Streams |-> cmd.reader[s].lines]]
            ELSE [cmd EXCEPT !.pc = "raised", !.waited = TRUE]
  /\ UNCHANGED <<manifests, bvars, mvars, xvars, pkgaur, cli, pair>>

CmdNext ==
  \/ ProcWrite
  \/ ProcExit
  \/ \E s \in Streams : ReadLine(s)
  \/ GatherReturn
  \/ GatherRaise
  \/ Wait

\* The process runs while it can write or exit, and the event loop runs
\* every coroutine that can go on.
CmdSpec ==
  /\ CmdInit
  /\ [][CmdNext]_vars
  /\ WF_vars(ProcWrite \/ ProcExit)
  /\ \A s \in Streams : WF_vars(ReadLine(s))
  /\ WF_vars(GatherReturn \/ GatherRaise \/ Wait)

\* C27: run() ends for every script and every interleaving; the exit status
\* is awaited only when both readers have reached the end of their streams,
\* or when a reader has raised and the process has been killed; what is
\* returned is every line the process wrote to each stream, in order; and
\* an exception leaves run() only after kill() and wait().
C27_DeadlockFreeCapture ==
  /\ [](/\ cmd.pc \in {"wait", "returned"}
             => \A s \in Streams : cmd.reader[s].pc = "done"
        /\ cmd.pc \in {"wait_raise", "raised"}
             => /\ \E s \in Streams : cmd.reader[s].pc = "raised"
                /\ cmd.killed
                /\ cmd.proc # "running"
        /\ cmd.pc = "returned"
             => /\ cmd.waited
                /\ \A s \in Streams : cmd.out[s] = LinesOf(cmd.script, s)
        /\ cmd.pc = "raised" => cmd.waited)
  /\ <>(cmd.pc \in {"returned", "raised"})

C27_Witness ==
  /\ cmd.pc = "returned"
  /\ cmd.script = << [stream |-> "stderr", line |-> "ok"],
                     [stream |-> "stderr", line |-> "ok"],
                     [stream |-> "stdout", line |-> "ok"] >>
  /\ cmd.out = [s \in Streams |->
                  IF s = "stderr" THEN <<"ok", "ok">> ELSE <<"ok">>]

(***************************************************************************)
(* __main__.py: the flag -B.  One run of the command line for P with -B    *)
(* given any number of times, over a build directory in which D may have   *)
(* been built by an earlier run.  cli holds the count argparse made of -B. *)
(***************************************************************************)
MaxRebuild == 2

\* `if rebuild:` for the count main passes on as rebuild.
Truthy(count) == count # 0

\* The manifest a successful build of dir with no dependencies left.
BuiltManifest(dir) ==
  save([Manifest(dir, dir) EXCEPT !.packages = packagelist(dir)])

RebuildInit ==
  /\ files \in {{}, packagelist(D)}
  /\ manifests \in {[dir \in Buildable |-> Absent],
                    [dir \in Buildable |->
                       IF dir = D THEN BuiltManifest(D) ELSE Absent]}
  /\ stack = <<>>
  /\ result = NoResult
  /\ prev = NoResult
  /\ invoked = {}
  /\ saved = {}
  /\ man = Manifest(P, P)
  /\ fresh = NoFresh
  /\ synced = FALSE
  /\ call = NoCall
  /\ ldir = LocalDir(<<>>)
  /\ pac = NoInstall
  /\ pkgaur = NoAur
  /\ cli \in {[pc |-> "build", rebuild |-> count] : count \in 0..MaxRebuild}
  /\ pair = NoSync
  /\ cmd = NoCmd

RebuildNext ==
  \/ stack = <<>> /\ NewBuilder(P, MainSource(FALSE))
  \/ result = NoResult /\ Build(Truthy(cli.rebuild))
  \/ Enter
  \/ \E created \in SUBSET Paths : MakepkgOk(created)
  \/ MakepkgFail
  \/ \E i \in 1..Len(Lines) : DiscoverLine(Lines[i], MaxDepth)
  \/ ChildReturn
  \/ DiscoverEnd
  \/ BuildReturn
  \/ BuildRaise

RebuildSpec == RebuildInit /\ [][RebuildNext]_vars

\* The manifest of the Builder's directory loads and verifies.
LoadsAndVerifies(b) ==
  LET l == load(b, manifests[b.pkgbuild])
  IN ~ l.raised /\ l.ok /\ verify(l.m, {}, files)

\* C31: with -B given once, the Builder of a reported dependency whose
\* manifest loads and verifies does not go on to run makepkg.
C31_RebuildOnceSparesDependencies ==
  cli.rebuild = 1 =>
    \A i \in 2..Len(stack) :
      ~ (/\ stack[i].pc = "make"
         /\ stack[i].attempts = 0
         /\ LoadsAndVerifies(stack[i]))

(***************************************************************************)
(* Properties of the command line                                          *)
(***************************************************************************)
\* C32: in a run with -a no Builder is given a local source, also when a
\* directory of the name holds a PKGBUILD; in a run without -a a name whose
\* directory holds a PKGBUILD is given the local source.
C32_AurOnly ==
  /\ cli.aur => \A k \in DOMAIN cli.pkgbuilds :
                  cli.pkgbuilds[k] # "LocalPkgbuild"
  /\ ~ cli.aur => \A k \in DOMAIN cli.pkgbuilds :
                    cli.names[k] \in cli.withPkgbuild
                      => cli.pkgbuilds[k] = "LocalPkgbuild"

\* C33: pacman called with confirm true writes no answer to the input of the
\* package manager; called with confirm false it writes 'y' for as long as
\* the package manager reads; either way a non-zero exit raises
\* CalledProcessError and a zero exit raises nothing.
C33_ConfirmLeavesPrompts ==
  call.fn = "pacman" =>
    /\ call.args.confirm => call.out.written = <<>>
    /\ ~ call.args.confirm =>
         call.out.written = [k \in 1..call.args.reads |-> "y"]
    /\ call.out.raised = "CalledProcessError" <=> call.args.rc # 0

\* C34: the update of an AUR package clones when the build directory is
\* absent; pulls when it is a git repository that is not up to date and
\* reports no change when it is up to date; removes the directory and clones
\* when it exists and is no repository; and raises nothing but the error of
\* a failing git command.
C34_UpdateCases ==
  call.fn = "_update" =>
    /\ call.args.builddir = "absent" => call.out.ops = <<"clone">>
    /\ call.args.builddir = "repository" =>
         IF call.args.uptodate
         THEN call.out.ops = <<>> /\ call.out.ret = "False"
         ELSE call.out.ops = <<"pull">>
    /\ call.args.builddir = "directory" =>
         call.out.ops = <<"remove", "clone">>
    /\ call.out.raised # "None" =>
         call.out.raised = "CalledProcessError" /\ call.args.gitfails

(***************************************************************************)
(* Properties of the Builder, continued                                    *)
(***************************************************************************)
\* The step writes the manifest of dir.
Writes(dir) ==
  manifests'[dir] # manifests[dir] \/ dir \in saved' \ saved

\* C35: whenever a Builder writes its manifest, the makepkg run before it
\* exited 0, the packages written include every artifact path the PKGBUILD
\* declares, and every path written under packages and under depends exists
\* on disk.
C35_WrittenManifestIsVerified ==
  [][\A dir \in Buildable :
       Writes(dir) =>
         LET b == stack'[Len(stack')]
             j == manifests'[dir]
         IN /\ stack' # <<>> /\ b.pkgbuild = dir /\ b.rc = 0
            /\ j = save(b)
            /\ packagelist(dir) \subseteq set(j.packages)
            /\ set(j.packages) \cup set(j.depends) \subseteq files']_vars

\* A Builder holding a dependency has written its manifest.
C35_Witness ==
  /\ stack # <<>>
  /\ Top.pc = "done" /\ Top.rc = 0
  /\ Top.pkgbuild \in saved
  /\ Top.depends # {}
  /\ manifests[Top.pkgbuild] = save(Top)

\* C36: a path enters the depends or makedepends of a parent, and with them
\* the dependency list of its next makepkg run, only when the _build of the
\* child it comes from returned a non-empty set, that is when the child's
\* manifest was verified; a child whose makepkg exited 0 without leaving its
\* artifacts adds nothing.
C36_OnlySucceededChildrenMerged ==
  [][(Len(stack) >= 2 /\ Len(stack') = Len(stack) - 1) =>
       LET child == stack[Len(stack)]
           before == stack[Len(stack')]
           after == stack'[Len(stack')]
       IN /\ build_depends(after) # build_depends(before)
               => child.retval # {}
          /\ child.retval = {} => Retry(after).pc = Retry(before).pc]_vars

(***************************************************************************)
(* Properties of the Manifest, continued                                   *)
(***************************************************************************)
\* C37: a load() that returns the empty result, because the file is missing
\* or lacks a key, leaves pkgname, packages, depends and makedepends of the
\* Manifest as they were before the call.
C37_FailedLoadChangesNothing ==
  [][LET l == load(man, manifests[man.pkgbuilddir])
     IN (man' = l.m /\ ~ l.ok /\ ~ l.raised)
          => /\ man'.pkgname = man.pkgname
             /\ man'.packages = man.packages
             /\ man'.depends = man.depends
             /\ man'.makedepends = man.makedepends]_vars

(***************************************************************************)
(* builder.py: Builder.install on a Builder that may have built before.    *)
(* pac records the call: whether a repository was named, the result of the *)
(* build() made before the call (earlier) and of the one install() makes   *)
(* itself (inner), and every repo-add and pacman invocation in order.      *)
(***************************************************************************)
NoBuilderInstall ==
  [pc |-> "idle", repo |-> FALSE, reinstall |-> FALSE, empty |-> FALSE,
   earlier |-> NoResult, inner |-> NoResult, log |-> <<>>]

BuilderInstallInit ==
  /\ files = {}
  /\ manifests \in InitManifests
  /\ stack = <<>>
  /\ result = NoResult
  /\ prev = NoResult
  /\ invoked = {}
  /\ saved = {}
  /\ man = Manifest(P, P)
  /\ fresh = NoFresh
  /\ synced = FALSE
  /\ call = NoCall
  /\ ldir = LocalDir(<<>>)
  /\ pac = NoBuilderInstall
  /\ pkgaur = NoAur
  /\ cli = NoCli
  /\ pair = NoSync
  /\ cmd = NoCmd

\* Manifest.install(reinstall, pacman_conf) of m, where rc1 and rc2 are the
\* exit codes pacman gives: the invocations made and whether one raised.
manifest_install(m, reinstall, rc1, rc2) ==
  LET args == {"-U"} \cup (IF ~ reinstall THEN {"--needed"} ELSE {})
                     \cup {"--config"}
      deps == [cmd |-> "pacman", flags |-> args \cup {"--asdeps"},
               paths |-> m.depends, rc |-> rc1]
      pkgs == [cmd |-> "pacman", flags |-> args, paths |-> m.packages,
               rc |-> rc2]
  IN IF m.depends # {}
     THEN IF rc1 # 0 THEN [log |-> <<deps>>, raised |-> "CalledProcessError"]
          ELSE [log |-> <<deps, pkgs>>,
                raised |-> IF rc2 # 0 THEN "CalledProcessError" ELSE "None"]
     ELSE [log |-> <<pkgs>>,
           raised |-> IF rc2 # 0 THEN "CalledProcessError" ELSE "None"]

\* Manifest.repo_add(repo) of m, that is LocalRepo.add(m): nothing without
\* a manifest file; else every runtime package is copied, which raises on a
\* missing one, and repo-add is run on them.  Its exit code is not looked at.
repo_add(m, j, disk, rc1) ==
  IF j.kind = "absent" THEN [log |-> <<>>, raised |-> "None"]
  ELSE IF ~ (runtime_packages(m) \subseteq disk)
  THEN [log |-> <<>>, raised |-> "FileNotFoundError"]
  ELSE [log |-> <<[cmd |-> "repo-add", flags |-> {},
                   paths |-> runtime_packages(m), rc |-> rc1]>>,
        raised |-> "None"]

\* install, lines 295-296: build() is called when the Builder holds no
\* runtime package.
BuilderInstall(reinstall, repo) ==
  /\ Len(stack) = 1
  /\ stack[1].pc = "idle"
  /\ pac.pc = "idle"
  /\ IF runtime_packages(stack[1]) = {}
     THEN /\ stack' = <<Activate(stack[1], FALSE)>>
          /\ pac' = [pac EXCEPT !.pc = "build", !.repo = repo,
                                !.reinstall = reinstall, !.empty = TRUE,
                                !.earlier = result]
          /\ prev' = result
          /\ result' = NoResult
     ELSE /\ pac' = [pac EXCEPT !.pc = "installing", !.repo = repo,
                                !.reinstall = reinstall, !.earlier = result]
          /\ UNCHANGED <<stack, prev, result>>
  /\ invoked' = {}
  /\ saved' = {}
  /\ UNCHANGED <<files, manifests, mvars, call, ldir, yvars>>

\* install, line 296: build() has ended.  What it returned is dropped; what
\* it raised leaves install.
BuilderInstallBuilt ==
  /\ pac.pc = "build"
  /\ Len(stack) = 1
  /\ stack[1].pc = "idle"
  /\ pac' = [pac EXCEPT !.inner = result,
                        !.pc = IF result.kind = "returned" THEN "installing"
                               ELSE "raised"]
  /\ UNCHANGED <<manifests, bvars, mvars, call, ldir, yvars>>

\* install, lines 297-302: the repository and pacman -Sy, or
\* Manifest.install.
BuilderInstallRun(rc1, rc2) ==
  /\ pac.pc = "installing"
  /\ LET b == stack[1]
         r == IF pac.repo
              THEN LET a == repo_add(b, manifests[b.pkgbuild], files, rc1)
                   IN IF a.raised # "None" THEN a
                      ELSE [log |-> Append(a.log,
                                           [cmd |-> "pacman", flags |-> {"-Sy"},
                                            paths |-> {}, rc |-> rc2]),
                            raised |-> IF rc2 # 0 THEN "CalledProcessError"
                                       ELSE "None"]
              ELSE manifest_install(b, pac.reinstall, rc1, rc2)
     IN pac' = [pac EXCEPT !.log = r.log,
                           !.pc = IF r.raised = "None" THEN "done"
                                  ELSE "raised"]
  /\ UNCHANGED <<manifests, bvars, mvars, call, ldir, yvars>>

BuilderInstallNext ==
  \/ stack = <<>> /\ NewBuilder(P, MainSource(FALSE))
  \/ pac.pc = "idle" /\ result = NoResult /\ Build(FALSE)
  \/ Enter
  \/ \E created \in SUBSET Paths : MakepkgOk(created)
  \/ MakepkgFail
  \/ \E i \in 1..Len(Lines) : DiscoverLine(Lines[i], MaxDepth)
  \/ ChildReturn
  \/ DiscoverEnd
  \/ BuildReturn
  \/ BuildRaise
  \/ \E reinstall \in BOOLEAN, repo \in BOOLEAN : BuilderInstall(reinstall, repo)
  \/ BuilderInstallBuilt
  \/ \E rc1 \in {0, 1}, rc2 \in {0, 1} : BuilderInstallRun(rc1, rc2)

BuilderInstallSpec == BuilderInstallInit /\ [][BuilderInstallNext]_vars

\* C38: install() calls build() first when the Builder holds no runtime
\* package; when that build() returned the empty set, or the build() made
\* on the Builder before the call did, install() runs neither pacman nor
\* repo-add.
C38_NoInstallAfterFailedBuild ==
  /\ (pac.pc # "idle" /\ pac.empty)
       => pac.pc = "build" \/ pac.inner # NoResult
  /\ (pac.pc \in {"done", "raised"}
        /\ (pac.inner = Returned({}) \/ pac.earlier = Returned({})))
       => pac.log = <<>>

\* C39: in a pass made with rebuild false, no dependency has makepkg run by
\* the Builders of two lines of the same failed attempt: the Builder of a
\* later line naming it answers from the manifest the first one saved.
C39_RepeatedDependencyBuiltOnce ==
  \A i \in 1..Len(stack) :
    ~ stack[i].rebuild =>
      \A j, k \in DOMAIN stack[i].made :
        j # k => stack[i].made[j] # stack[i].made[k]

====
